---- MODULE Spec2Model ----
(***************************************************************************)
(* Habit tracker bot: the reminder sweep (scheduler/cron.ts,               *)
(* services/reminderService.ts), the user settings it reads                *)
(* (services/userService.ts, bot/callbacks, bot/conversations) and the     *)
(* completion log (services/habitService.ts).                              *)
(*                                                                         *)
(* Representation.  A calendar date 'yyyy-MM-dd' is the number of days     *)
(* since 1970-01-01 (the format is injective and order preserving, and the *)
(* code only compares dates and takes day differences).  A time 'HH:MM' is *)
(* the record [hh, mm] of its two fields.  A nullable column is <<>> for   *)
(* null and <<v>> for the value v.  An instant is a number of minutes since *)
(* the epoch, UTC.                                                         *)
(***************************************************************************)
EXTENDS Integers, Sequences, FiniteSets, TLC

(* ------------------------------ bounds -------------------------------- *)
\* The clock moves over the instants Instant(0) .. Instant(MaxInstant).
MaxInstant == 5
\* Sweep invocations that can be in flight at once.
MaxRuns == 2
\* toggleHabitCompletion calls that can be in flight at once.
MaxCalls == 2
\* Storage and delivery failures injected in one behaviour.
MaxFaults == 1
\* Settings edits and habit deletions performed in one behaviour.
MaxEdits == 2
\* toggleHabitCompletion calls made in one behaviour.
MaxToggles == 4
\* Handler invocations (edits and toggles together) in one behaviour of Spec.
MaxInteractions == 2
\* The largest frequencyDays of an interval rule.
MaxFrequencyDays == 3
\* Days before the first day on which the drawn logs can hold completions.
MaxDaysBack == 6
\* Length of the window of dates the due predicates are applied to.
DueWindowDays == 14
\* The habits a user has at most.
MaxHabits == 2
\* The shutdowns of the process.
MaxShutdowns == 1
\* The days after the first day a calendar grid spans.
MaxGridDays == 4

(* ------------------------------ domains ------------------------------- *)
Null == <<>>
UserIds == {1, 2}
HabitIds == {1, 2}
Types == {"morning", "evening"}
RunIds == 1..MaxRuns
CallIds == 1..MaxCalls

MinutesPerDay == 24 * 60
\* UTC minutes of day at which the clock can stand: 04:59, 05:00, 18:00 and
\* 21:00, that is 07:59, 08:00, 21:00 and 00:00 (next day) at UTC+3.
SlotMinutes == <<299, 300, 1080, 1260>>
FirstDay == 19723
Instant(i) ==
    (FirstDay + (i \div Len(SlotMinutes))) * MinutesPerDay
        + SlotMinutes[(i % Len(SlotMinutes)) + 1]

\* What a user can type as a time (after isValidTime / normalizeTime).
TimeInputs == {[hh |-> 8, mm |-> 0], [hh |-> 21, mm |-> 0]}
\* What a user can type as a timezone: "-12", "14", "15".
TimezoneInputs == {<<"-", "1", "2">>, <<"1", "4">>, <<"1", "5">>}

VARIABLES
    clock,      \* index of the current instant
    lastTick,   \* index of the instant of the last cron tick
    users,      \* the User table
    habits,     \* the Habit table
    logs,       \* the HabitLog table
    runs,       \* sweep invocations in flight
    calls,      \* toggleHabitCompletion calls in flight
    delivered,  \* history: <<user, type, date>> of messages the channel accepted
    marked,     \* history: <<user, type, date>> the watermark has been set to
    resent,     \* history: <<user, type, date>> delivered after being marked
    wmCause,    \* history: outcome of the Send step that wrote each watermark
    abort,      \* history: the last sweep pass ended by an exception
    toggled,    \* history: the pair last toggled and its entry before the last toggles
    faults,     \* failures injected so far
    edits,      \* settings edits performed so far
    toggles,    \* toggleHabitCompletion calls made so far
    query,      \* the last read-only request (view, statistics) and its answer
    proc        \* the process: running, stopping or down, and the deliveries
                \* (history) that its exit abandoned in flight

vars == <<clock, lastTick, users, habits, logs, runs, calls, delivered,
          marked, resent, wmCause, abort, toggled, faults, edits, toggles,
          query, proc>>

(* --------------------------- utils/date.ts ---------------------------- *)
\* new Date(): the current instant.
Now == Instant(clock)

\* getNowInTimezone: the instant shifted by the user's offset.
getNowInTimezone(instant, timezoneOffset) == instant + timezoneOffset

\* getTodayDate: format(getNowInTimezone(offset), 'yyyy-MM-dd').
getTodayDate(instant, timezoneOffset) ==
    getNowInTimezone(instant, timezoneOffset) \div MinutesPerDay

\* parseTime: hours and minutes of an 'HH:MM' string.
parseTime(timeStr) == [hours |-> timeStr.hh, minutes |-> timeStr.mm]

\* A day of the week that counts from Monday.
getDayOfWeekFromMonday(date) == (date + 3) % 7

\* getDayOfWeek: 0 = Sunday .. 6 = Saturday (1970-01-01 was a Thursday).
getDayOfWeek(date) == (date + 4) % 7

\* differenceInDays of two calendar dates.
differenceInDays(later, earlier) == later - earlier

\* isHabitDueToday with diffDays > frequencyDays.
isHabitDueTodayAfterInterval(frequencyType, frequencyDays, weekdays, lastCompletedDate, todayDate) ==
    CASE frequencyType = "daily" -> TRUE
      [] frequencyType = "interval" ->
            IF lastCompletedDate = Null THEN TRUE
            ELSE differenceInDays(todayDate, lastCompletedDate[1]) > frequencyDays
      [] frequencyType = "weekdays" ->
            IF weekdays = {} THEN FALSE
            ELSE getDayOfWeek(todayDate) \in weekdays
      [] OTHER -> TRUE

\* isHabitDueToday with diffDays === frequencyDays.
isHabitDueTodayOnIntervalDay(frequencyType, frequencyDays, weekdays, lastCompletedDate, todayDate) ==
    CASE frequencyType = "daily" -> TRUE
      [] frequencyType = "interval" ->
            IF lastCompletedDate = Null THEN TRUE
            ELSE differenceInDays(todayDate, lastCompletedDate[1]) = frequencyDays
      [] frequencyType = "weekdays" ->
            IF weekdays = {} THEN FALSE
            ELSE getDayOfWeek(todayDate) \in weekdays
      [] OTHER -> TRUE

\* isHabitDueToday
isHabitDueToday(frequencyType, frequencyDays, weekdays, lastCompletedDate, todayDate) ==
    CASE frequencyType = "daily" -> TRUE
      [] frequencyType = "interval" ->
            IF lastCompletedDate = Null THEN TRUE
            ELSE differenceInDays(todayDate, lastCompletedDate[1]) >= frequencyDays
      [] frequencyType = "weekdays" ->
            IF weekdays = {} THEN FALSE
            ELSE getDayOfWeek(todayDate) \in weekdays
      [] OTHER -> TRUE

(* ----------------------- services/userService.ts ---------------------- *)
UserOrder == <<1, 2>>

enabledField(type) == IF type = "morning" THEN "morningEnabled" ELSE "eveningEnabled"
timeField(type) == IF type = "morning" THEN "morningTime" ELSE "eveningTime"
lastField(type) ==
    IF type = "morning" THEN "lastMorningReminderDate" ELSE "lastEveningReminderDate"

\* A row as a query returns it: the columns and the id.
UserRow(us, id) == [id |-> id, row |-> us[id]]

\* The users query without its where clause.
getUsersForReminderUnfiltered(us, type) ==
    LET ids == SelectSeq(UserOrder, LAMBDA id : id \in DOMAIN us)
    IN  [i \in 1..Len(ids) |-> UserRow(us, ids[i])]

\* getUsersForMorningReminder / getUsersForEveningReminder:
\* findMany({ where: { morningEnabled: true } }), resp. eveningEnabled.
getUsersForReminder(us, type) ==
    LET ids == SelectSeq(UserOrder,
                         LAMBDA id : id \in DOMAIN us /\ us[id][enabledField(type)])
    IN  [i \in 1..Len(ids) |-> UserRow(us, ids[i])]

\* A settings update that also clears the reminder watermarks.
updateUserSettingsClearingWatermarks(us, userId, settings) ==
    [us EXCEPT ![userId] =
        [f \in DOMAIN us[userId] |->
            IF f \in DOMAIN settings THEN settings[f]
            ELSE IF f \in {"lastMorningReminderDate", "lastEveningReminderDate"}
            THEN Null
            ELSE us[userId][f]]]

\* updateUserSettings: prisma.user.update({ where: { id }, data: settings }).
updateUserSettings(us, userId, settings) ==
    [us EXCEPT ![userId] =
        [f \in DOMAIN us[userId] |->
            IF f \in DOMAIN settings THEN settings[f] ELSE us[userId][f]]]

(* ------------------------------- texts -------------------------------- *)
\* A message text is a sequence of characters. parseInt(text, 10) skips the
\* leading white space, reads a sign and the decimal digits that follow, and
\* is NaN (Null) when no digit follows.
DigitValue ==
    [c \in {"0", "1", "2", "3", "4", "5", "6", "7", "8", "9"} |->
        CASE c = "0" -> 0 [] c = "1" -> 1 [] c = "2" -> 2 [] c = "3" -> 3
          [] c = "4" -> 4 [] c = "5" -> 5 [] c = "6" -> 6 [] c = "7" -> 7
          [] c = "8" -> 8 [] c = "9" -> 9]

RECURSIVE digitsValue(_, _)
digitsValue(text, acc) ==
    IF text = <<>> \/ Head(text) \notin DOMAIN DigitValue THEN acc
    ELSE digitsValue(Tail(text), 10 * acc + DigitValue[Head(text)])

RECURSIVE trimStart(_)
trimStart(text) ==
    IF text # <<>> /\ Head(text) = " " THEN trimStart(Tail(text)) ELSE text

parseInt(text) ==
    LET t == trimStart(text)
        signed == t # <<>> /\ Head(t) \in {"-", "+"}
        body == IF signed THEN Tail(t) ELSE t
    IN  IF body = <<>> \/ Head(body) \notin DOMAIN DigitValue THEN Null
        ELSE IF signed /\ Head(t) = "-" THEN <<0 - digitsValue(body, 0)>>
        ELSE <<digitsValue(body, 0)>>

\* The leading decimal digits of a text.
RECURSIVE takeDigits(_)
takeDigits(text) ==
    IF text = <<>> \/ Head(text) \notin DOMAIN DigitValue THEN <<>>
    ELSE <<Head(text)>> \o takeDigits(Tail(text))

RECURSIVE power10(_)
power10(k) == IF k = 0 THEN 1 ELSE 10 * power10(k - 1)

\* parseFloat(text) of a text without exponent: the white space, the sign,
\* the digits, and the digits after a point; NaN (Null) when there is no
\* digit. The number is num / den, den a power of ten.
parseFloat(text) ==
    LET t == trimStart(text)
        signed == t # <<>> /\ Head(t) \in {"-", "+"}
        body == IF signed THEN Tail(t) ELSE t
        int == takeDigits(body)
        rest == SubSeq(body, Len(int) + 1, Len(body))
        frac == IF rest # <<>> /\ Head(rest) = "." THEN takeDigits(Tail(rest))
                ELSE <<>>
        magnitude == digitsValue(int, 0) * power10(Len(frac)) + digitsValue(frac, 0)
    IN  IF int = <<>> /\ frac = <<>> THEN Null
        ELSE <<[num |-> IF signed /\ Head(t) = "-" THEN 0 - magnitude ELSE magnitude,
                den |-> power10(Len(frac))]>>

\* String.prototype.trim
RECURSIVE trimEnd(_)
trimEnd(text) ==
    IF text # <<>> /\ text[Len(text)] = " "
    THEN trimEnd(SubSeq(text, 1, Len(text) - 1)) ELSE text
trim(text) == trimEnd(trimStart(text))

\* text.replace(',', '.'): the first comma only.
RECURSIVE replaceComma(_)
replaceComma(text) ==
    IF text = <<>> THEN <<>>
    ELSE IF Head(text) = "," THEN <<".">> \o Tail(text)
    ELSE <<Head(text)>> \o replaceComma(Tail(text))

\* text.replace(/^UTC/i, '')
replaceUTC(text) ==
    IF /\ Len(text) >= 3
       /\ text[1] \in {"U", "u"} /\ text[2] \in {"T", "t"} /\ text[3] \in {"C", "c"}
    THEN SubSeq(text, 4, Len(text)) ELSE text

(* --------------------- utils/timezoneFromLocation.ts ------------------ *)
\* A parse that accepts any number.
parseTimezoneFromTextUnchecked(input) ==
    LET offset == parseFloat(trim(replaceUTC(replaceComma(trim(input)))))
    IN  IF offset = Null THEN Null
        ELSE <<(120 * offset[1].num + offset[1].den) \div (2 * offset[1].den)>>

\* parseTimezoneFromText: null when the cleaned text is no number or the
\* number is outside [-12, 14], otherwise Math.round(offset * 60).
parseTimezoneFromText(input) ==
    LET cleaned == trim(replaceUTC(replaceComma(trim(input))))
        offset == parseFloat(cleaned)
    IN  IF \/ offset = Null
           \/ offset[1].num < (0 - 12) * offset[1].den
           \/ offset[1].num > 14 * offset[1].den
        THEN Null
        ELSE <<(120 * offset[1].num + offset[1].den) \div (2 * offset[1].den)>>

(* -------------------- bot/conversations/settings.ts ------------------- *)
\* isValidTime: /^([01]?[0-9]|2[0-3]):([0-5][0-9])$/
isValidTime(time) == time.hh \in 0..23 /\ time.mm \in 0..59

(* ---------------------- services/habitService.ts ---------------------- *)
Max(S) == CHOOSE x \in S : \A y \in S : y <= x
Min(S) == CHOOSE x \in S : \A y \in S : x <= y

\* getHabitLog: findUnique({ where: { habitId_date: { habitId, date } } }).
getHabitLog(lg, habitId, date) ==
    LET found == {e \in lg : e.habitId = habitId /\ e.date = date}
    IN  IF found = {} THEN Null ELSE <<CHOOSE e \in found : TRUE>>

\* findFirst({ where: { habitId, completed: true }, orderBy: { date: 'desc' } })
lastCompleted(lg, habitId) ==
    LET dates == {e.date : e \in {x \in lg : x.habitId = habitId /\ x.completed}}
    IN  IF dates = {} THEN Null ELSE <<Max(dates)>>

\* A today view in which the rule alone decides isDueToday.
getUserHabitsWithTodayStatusByRuleOnly(hs, lg, userId, today) ==
    { LET habit == hs[h]
          log == getHabitLog(lg, h, today)
          completedToday == IF log = Null THEN FALSE ELSE log[1].completed
      IN  [id |-> h,
           completedToday |-> completedToday,
           isDueToday |->
               isHabitDueToday(habit.frequencyType, habit.frequencyDays,
                               habit.weekdays, lastCompleted(lg, h), today)]
      : h \in {x \in DOMAIN hs : hs[x].userId = userId /\ hs[x].isActive} }

\* getUserHabitsWithTodayStatus: the active habits of the user, each with
\* completedToday and isDueToday.
getUserHabitsWithTodayStatus(hs, lg, userId, today) ==
    { LET habit == hs[h]
          log == getHabitLog(lg, h, today)
          completedToday == IF log = Null THEN FALSE ELSE log[1].completed
      IN  [id |-> h,
           completedToday |-> completedToday,
           isDueToday |-> completedToday
               \/ isHabitDueToday(habit.frequencyType, habit.frequencyDays,
                                  habit.weekdays, lastCompleted(lg, h), today)]
      : h \in {x \in DOMAIN hs : hs[x].userId = userId /\ hs[x].isActive} }

\* The habits of today without the filter on isDueToday.
getTodayHabitsUnfiltered(hs, lg, userId, today) ==
    getUserHabitsWithTodayStatus(hs, lg, userId, today)

\* getTodayHabits: allHabits.filter((h) => h.isDueToday)
getTodayHabits(hs, lg, userId, today) ==
    {h \in getUserHabitsWithTodayStatus(hs, lg, userId, today) : h.isDueToday}

\* deleteHabit: update({ where: { id }, data: { isActive: false } })
deleteHabit(hs, habitId) == [hs EXCEPT ![habitId].isActive = FALSE]

\* isHabitDueOnDate without the test diffDays >= 0.
isHabitDueOnDateEitherSide(frequencyType, frequencyDays, weekdays, referenceDate, dateStr) ==
    CASE frequencyType = "daily" -> TRUE
      [] frequencyType = "interval" ->
            IF referenceDate = Null THEN TRUE
            ELSE differenceInDays(dateStr, referenceDate[1]) % frequencyDays = 0
      [] frequencyType = "weekdays" ->
            IF weekdays = {} THEN FALSE
            ELSE getDayOfWeek(dateStr) \in weekdays
      [] OTHER -> TRUE

\* isHabitDueOnDate
isHabitDueOnDate(frequencyType, frequencyDays, weekdays, referenceDate, dateStr) ==
    CASE frequencyType = "daily" -> TRUE
      [] frequencyType = "interval" ->
            IF referenceDate = Null THEN TRUE
            ELSE LET diffDays == differenceInDays(dateStr, referenceDate[1])
                 IN  diffDays >= 0 /\ diffDays % frequencyDays = 0
      [] frequencyType = "weekdays" ->
            IF weekdays = {} THEN FALSE
            ELSE getDayOfWeek(dateStr) \in weekdays
      [] OTHER -> TRUE

\* The dates of the completed = true entries of a habit.
completedDates(lg, habitId) ==
    {e.date : e \in {x \in lg : x.habitId = habitId /\ x.completed}}

\* findFirst({ where: { habitId, completed: true }, orderBy: { date: 'asc' } })
firstCompleted(lg, habitId) ==
    LET dates == completedDates(lg, habitId)
    IN  IF dates = {} THEN Null ELSE <<Min(dates)>>

\* format(habit.createdAt, 'yyyy-MM-dd'), the process running in UTC.
habitCreatedDate(habit) == habit.createdAt \div MinutesPerDay

\* A date view whose interval rule is anchored on the last completion.
getUserHabitsWithDateStatusFromLast(hs, lg, userId, date) ==
    { LET habit == hs[h]
          log == getHabitLog(lg, h, date)
          completed == IF log = Null THEN FALSE ELSE log[1].completed
          last == lastCompleted(lg, h)
          referenceDate == IF last = Null THEN <<habitCreatedDate(habit)>> ELSE last
      IN  [id |-> h,
           completedToday |-> completed,
           isDueToday |->
               IF date < habitCreatedDate(habit) THEN FALSE
               ELSE completed
                    \/ isHabitDueOnDate(habit.frequencyType, habit.frequencyDays,
                                        habit.weekdays, referenceDate, date)]
      : h \in {x \in DOMAIN hs : hs[x].userId = userId /\ hs[x].isActive} }

\* getUserHabitsWithDateStatus: the active habits of the user, each with its
\* completion and due status on the given date.
getUserHabitsWithDateStatus(hs, lg, userId, date) ==
    { LET habit == hs[h]
          log == getHabitLog(lg, h, date)
          completed == IF log = Null THEN FALSE ELSE log[1].completed
          first == firstCompleted(lg, h)
          referenceDate == IF first = Null THEN <<habitCreatedDate(habit)>> ELSE first
      IN  [id |-> h,
           completedToday |-> completed,
           isDueToday |->
               IF date < habitCreatedDate(habit) THEN FALSE
               ELSE completed
                    \/ isHabitDueOnDate(habit.frequencyType, habit.frequencyDays,
                                        habit.weekdays, referenceDate, date)]
      : h \in {x \in DOMAIN hs : hs[x].userId = userId /\ hs[x].isActive} }

(* ---------------------- services/statsService.ts ---------------------- *)
\* A loop that a completion after the expected date ends.
RECURSIVE streakFromEndingOnFuture(_, _, _)
streakFromEndingOnFuture(dates, expectedDate, frequencyDays) ==
    IF dates = {} THEN 0
    ELSE LET logDate == Max(dates)
             diffDays == expectedDate - logDate
         IN  IF diffDays <= frequencyDays /\ diffDays >= 0
             THEN 1 + streakFromEndingOnFuture(dates \ {logDate},
                                               logDate - frequencyDays, frequencyDays)
             ELSE 0

\* The loop of calculateCurrentStreak over the completed dates, newest first.
RECURSIVE streakFrom(_, _, _)
streakFrom(dates, expectedDate, frequencyDays) ==
    IF dates = {} THEN 0
    ELSE LET logDate == Max(dates)
             diffDays == expectedDate - logDate
         IN  IF diffDays <= frequencyDays /\ diffDays >= 0
             THEN 1 + streakFrom(dates \ {logDate}, logDate - frequencyDays,
                                 frequencyDays)
             ELSE IF diffDays > frequencyDays THEN 0
             ELSE streakFrom(dates \ {logDate}, expectedDate, frequencyDays)

\* A current streak that expects a completion on every day.
calculateCurrentStreakOfDays(lg, habitId, frequencyDays, today) ==
    streakFrom(completedDates(lg, habitId), today, 1)

calculateCurrentStreak(lg, habitId, frequencyDays, today) ==
    streakFrom(completedDates(lg, habitId), today, frequencyDays)

\* The loop of calculateMaxStreak over the completed dates, oldest first.
RECURSIVE maxStreakFrom(_, _, _, _, _)
maxStreakFrom(dates, prevDate, currentStreak, maxStreak, frequencyDays) ==
    IF dates = {} THEN maxStreak
    ELSE LET currDate == Min(dates)
             diffDays == currDate - prevDate
         IN  IF diffDays <= frequencyDays
             THEN maxStreakFrom(dates \ {currDate}, currDate, currentStreak + 1,
                                Max({maxStreak, currentStreak + 1}), frequencyDays)
             ELSE maxStreakFrom(dates \ {currDate}, currDate, 1, maxStreak,
                                frequencyDays)

\* A maximal streak that no gap breaks.
calculateMaxStreakAcrossGaps(lg, habitId, frequencyDays) ==
    Cardinality(completedDates(lg, habitId))

calculateMaxStreak(lg, habitId, frequencyDays) ==
    LET dates == completedDates(lg, habitId)
    IN  IF dates = {} THEN 0
        ELSE maxStreakFrom(dates \ {Min(dates)}, Min(dates), 1, 1, frequencyDays)

\* getLastNDays: the `days` dates that end today.
getLastNDays(days, today) == (today - (days - 1))..today

\* Math.ceil(a / b) and Math.round(a / b * 100) of non-negative integers.
ceilDiv(a, b) == (a + b - 1) \div b
roundPercent(a, b) == (200 * a + b) \div (2 * b)

\* A completion rate clamped to 100.
calculateCompletionRateClamped(lg, habitId, frequencyDays, days, today) ==
    LET lastNDays == getLastNDays(days, today)
        expectedCompletions == ceilDiv(days, frequencyDays)
        completedCount == Cardinality(completedDates(lg, habitId) \cap lastNDays)
    IN  IF expectedCompletions = 0 THEN 100
        ELSE Min({100, roundPercent(completedCount, expectedCompletions)})

calculateCompletionRate(lg, habitId, frequencyDays, days, today) ==
    LET lastNDays == getLastNDays(days, today)
        expectedCompletions == ceilDiv(days, frequencyDays)
        completedCount == Cardinality(completedDates(lg, habitId) \cap lastNDays)
    IN  IF expectedCompletions = 0 THEN 100
        ELSE roundPercent(completedCount, expectedCompletions)

\* The window getHabitStats asks the completion rate for.
RateWindowDays == 30

getHabitStats(hs, lg, habitId, today) ==
    [habitId |-> habitId,
     totalCompleted |-> Cardinality(completedDates(lg, habitId)),
     currentStreak |->
         calculateCurrentStreak(lg, habitId, hs[habitId].frequencyDays, today),
     maxStreak |-> calculateMaxStreak(lg, habitId, hs[habitId].frequencyDays),
     completionRate |->
         calculateCompletionRate(lg, habitId, hs[habitId].frequencyDays,
                                 RateWindowDays, today)]

getUserStats(hs, lg, userId, today) ==
    LET userHabits == {h \in DOMAIN hs : hs[h].userId = userId}
        activeHabits == {h \in userHabits : hs[h].isActive}
    IN  [totalHabits |-> Cardinality(userHabits),
         activeHabits |-> Cardinality(activeHabits),
         totalCompletions |->
             Cardinality({e \in lg : e.habitId \in userHabits /\ e.completed}),
         habitStats |-> {getHabitStats(hs, lg, h, today) : h \in activeHabits}]

(* ---------------------- services/weeklyService.ts --------------------- *)
\* getWeekStatesForHabit: done | missed | off | future for the 7 days.
getWeekStatesForHabit(hs, lg, habitId, weekStartMonday, today) ==
    LET habit == hs[habitId]
        first == firstCompleted(lg, habitId)
        referenceDate == IF first = Null THEN <<habitCreatedDate(habit)>> ELSE first
    IN  [d \in 0..6 |->
            LET dateStr == weekStartMonday + d
                due == isHabitDueOnDate(habit.frequencyType, habit.frequencyDays,
                                        habit.weekdays, referenceDate, dateStr)
            IN  IF dateStr > today THEN "future"
                ELSE IF dateStr \in completedDates(lg, habitId) THEN "done"
                ELSE IF dateStr < habitCreatedDate(habit) THEN "off"
                ELSE IF due THEN "missed"
                ELSE "off"]

\* getWeeklyData: one row per active habit of the user.
getWeeklyData(hs, lg, userId, weekStartMonday, today) ==
    {[habitId |-> h,
      states |-> getWeekStatesForHabit(hs, lg, h, weekStartMonday, today)]
     : h \in {x \in DOMAIN hs : hs[x].userId = userId /\ hs[x].isActive}}

(* --------------------- services/reminderService.ts -------------------- *)
IdleRun ==
    [pc |-> "idle", type |-> "morning", users |-> <<>>, now |-> 0, idx |-> 0,
     todayDate |-> 0, delivery |-> "none"]

\* user.timezoneOffset ?? 180
sweepTimezoneOffset(row) ==
    IF row.timezoneOffset = Null THEN 180 ELSE row.timezoneOffset[1]

\* Minutes since local midnight of the instant `now` (userHours * 60 + userMinutes).
currentTimeInMinutes(now, timezoneOffset) ==
    getNowInTimezone(now, timezoneOffset) % MinutesPerDay

\* The decision of one loop iteration of checkAndSendReminders: not yet sent
\* on todayDate (computed at the instant `at`), and the local time of the
\* instant `now`, taken once before the loop, has reached the target time.
reminderIsDue(row, type, now, at) ==
    LET timezoneOffset == sweepTimezoneOffset(row)
        todayDate == getTodayDate(at, timezoneOffset)
        target == parseTime(row[timeField(type)])
    IN  /\ row[lastField(type)] # <<todayDate>>
        /\ currentTimeInMinutes(now, timezoneOffset)
               >= target.hours * 60 + target.minutes

\* The loop runs without suspension up to the next user whose reminder is
\* due: the index of that user, or Len + 1 when the loop ends.
RECURSIVE nextDueIndex(_, _, _, _, _)
nextDueIndex(rows, type, now, at, i) ==
    IF i > Len(rows) THEN i
    ELSE IF reminderIsDue(rows[i].row, type, now, at) THEN i
    ELSE nextDueIndex(rows, type, now, at, i + 1)

\* The invocation after the loop has gone on from index i: suspended in the
\* Send step of the next due user, or past the loop.  startScheduler awaits
\* the morning pass and then starts the evening pass.
continueLoop(run, i, at) ==
    LET j == nextDueIndex(run.users, run.type, run.now, at, i)
    IN  IF j <= Len(run.users)
        THEN [run EXCEPT !.pc = "habits", !.idx = j, !.delivery = "none",
                 !.todayDate =
                     getTodayDate(at, sweepTimezoneOffset(run.users[j].row))]
        ELSE IF run.type = "morning"
        THEN [IdleRun EXCEPT !.pc = "fetch", !.type = "evening"]
        ELSE IdleRun

\* An update that writes the date to the watermarks of both channels.
setWatermarkOfBothChannels(us, userId, type, todayDate) ==
    [us EXCEPT ![userId].lastMorningReminderDate = <<todayDate>>,
               ![userId].lastEveningReminderDate = <<todayDate>>]

\* prisma.user.update({ data: { lastMorningReminderDate: todayDate } })
setWatermark(us, userId, type, todayDate) ==
    [us EXCEPT ![userId][lastField(type)] = <<todayDate>>]

(* ------------------------------- state -------------------------------- *)
\* A User row as findOrCreateUser creates it.
NewUser ==
    [timezoneOffset |-> Null,
     morningTime |-> [hh |-> 8, mm |-> 0],
     eveningTime |-> [hh |-> 21, mm |-> 0],
     morningEnabled |-> TRUE,
     eveningEnabled |-> TRUE,
     lastMorningReminderDate |-> Null,
     lastEveningReminderDate |-> Null]

\* The rules a habit is created with (createHabit).
DailyRule == [frequencyType |-> "daily", frequencyDays |-> 1, weekdays |-> {}]
IntervalRule == [frequencyType |-> "interval", frequencyDays |-> 2, weekdays |-> {}]
WeekdaysRule == [frequencyType |-> "weekdays", frequencyDays |-> 1, weekdays |-> {1, 3, 5}]

NewHabit(userId, rule) ==
    [userId |-> userId, isActive |-> TRUE, frequencyType |-> rule.frequencyType,
     frequencyDays |-> rule.frequencyDays, weekdays |-> rule.weekdays,
     createdAt |-> Instant(0)]

IdleCall ==
    [pc |-> "idle", habitId |-> 0, date |-> 0, existingLog |-> Null, clean |-> TRUE]

NoToggle == [habitId |-> 0, date |-> 0, before |-> <<>>]
NoAbort == [user |-> 0, type |-> "morning", unevaluated |-> {}]
NoQuery == [op |-> "none"]
\* The process after main() has started the scheduler.
Running == [state |-> "running", shutdowns |-> 0, abandoned |-> {}]

\* The tables hold the users of U, each with one habit (habit h belongs to
\* user h); the first habit has any of the given rules, the others are daily;
\* the completion log is any of the given tables, and the request at hand any
\* of the given ones.
InitRequests(U, rules, tables, requests) ==
    /\ clock = 0
    /\ lastTick = -1
    /\ users = [u \in U |-> NewUser]
    /\ \E rule \in rules :
          habits = [h \in U |->
                      IF h = 1 THEN NewHabit(h, rule) ELSE NewHabit(h, DailyRule)]
    /\ logs \in tables
    /\ runs = [r \in RunIds |-> IdleRun]
    /\ calls = [c \in CallIds |-> IdleCall]
    /\ delivered = {}
    /\ marked = {}
    /\ resent = {}
    /\ wmCause = [u \in U |-> [t \in Types |-> "none"]]
    /\ abort = NoAbort
    /\ toggled = NoToggle
    /\ faults = 0
    /\ edits = 0
    /\ toggles = 0
    /\ query \in requests
    /\ proc = Running

\* The same with no request at hand.
InitTables(U, rules, tables) == InitRequests(U, rules, tables, {NoQuery})

\* The same with an empty completion log.
InitWith(U, rules) == InitTables(U, rules, {{}})

\* One user, whose habit may not be due on every day.
Init == InitWith({1}, {DailyRule, WeekdaysRule})

\* One user with an interval habit, whose due days depend on the log.
InitInterval == InitWith({1}, {IntervalRule})

\* Two users.
InitPair == InitWith(UserIds, {DailyRule})

sweepVars == <<runs, lastTick, delivered, marked, resent, wmCause, abort>>
logVars == <<logs, calls, toggled, toggles>>

(* ------------------------------- clock -------------------------------- *)
\* Time passes.
Advance ==
    /\ clock < MaxInstant
    /\ clock' = clock + 1
    /\ UNCHANGED <<users, habits, faults, edits, sweepVars, logVars, query, proc>>

(* -------------------------- scheduler/cron.ts ------------------------- *)
\* cron.schedule('* * * * *', ...): the callback starts once a minute, whether
\* or not an earlier invocation is still awaiting; it first awaits
\* checkAndSendReminders(bot, 'morning').
startRun(r) ==
    /\ proc.state = "running"
    /\ lastTick < clock
    /\ runs[r].pc = "idle"
    /\ \A q \in RunIds : q < r => runs[q].pc # "idle"
    /\ runs' = [runs EXCEPT ![r] = [IdleRun EXCEPT !.pc = "fetch"]]
    /\ lastTick' = clock
    /\ UNCHANGED <<clock, users, habits, faults, edits, delivered, marked,
                   resent, wmCause, abort, logVars, query, proc>>

CronTick == \E r \in RunIds : startRun(r)

\* The same tick when the previous invocation has returned before it.
CronTickIdle ==
    /\ \A q \in RunIds : runs[q].pc = "idle"
    /\ startRun(1)

\* The exception of a storage call leaves checkAndSendReminders and is caught
\* by the callback of cron.schedule, which logs it and returns.
throwFromPass(r, failing) ==
    /\ faults < MaxFaults
    /\ faults' = faults + 1
    /\ runs' = [runs EXCEPT ![r] = IdleRun]
    /\ abort' = IF failing = 0 THEN abort
                ELSE [user |-> failing, type |-> runs[r].type,
                      unevaluated |->
                          {runs[r].users[j].id :
                               j \in (runs[r].idx + 1)..Len(runs[r].users)}]

(* --------------------- checkAndSendReminders steps -------------------- *)
\* The users query returns; now = new Date(); the loop starts.
Fetch(r) ==
    /\ runs[r].pc = "fetch"
    /\ runs' = [runs EXCEPT ![r] =
                  continueLoop([runs[r] EXCEPT
                                   !.users = getUsersForReminder(users, runs[r].type),
                                   !.now = Now], 1, Now)]
    /\ UNCHANGED <<clock, lastTick, users, habits, faults, edits, delivered,
                   marked, resent, wmCause, abort, logVars, query, proc>>

\* The users query throws.
FetchFail(r) ==
    /\ runs[r].pc = "fetch"
    /\ throwFromPass(r, 0)
    /\ UNCHANGED <<clock, lastTick, users, habits, edits, delivered,
                   marked, resent, wmCause, logVars, query, proc>>

\* sendMorningReminder / sendEveningReminder: the habits queries return; an
\* empty list returns without a message, otherwise the message is handed to
\* bot.api.sendMessage.
Habits(r) ==
    LET run == runs[r]
        due == getTodayHabits(habits, logs, run.users[run.idx].id, run.todayDate)
    IN  /\ run.pc = "habits"
        /\ runs' = [runs EXCEPT ![r] =
                      IF due = {}
                      THEN [run EXCEPT !.pc = "update", !.delivery = "empty"]
                      ELSE [run EXCEPT !.pc = "deliver"]]
        /\ UNCHANGED <<clock, lastTick, users, habits, faults, edits, delivered,
                       marked, resent, wmCause, abort, logVars, query, proc>>

\* A habits query throws.
HabitsFail(r) ==
    /\ runs[r].pc = "habits"
    /\ throwFromPass(r, runs[r].users[runs[r].idx].id)
    /\ UNCHANGED <<clock, lastTick, users, habits, edits, delivered,
                   marked, resent, wmCause, logVars, query, proc>>

\* bot.api.sendMessage resolves: the message is delivered.
Deliver(r) ==
    LET run == runs[r]
        key == <<run.users[run.idx].id, run.type, run.todayDate>>
    IN  /\ run.pc = "deliver"
        /\ delivered' = delivered \cup {key}
        /\ resent' = IF key \in marked THEN resent \cup {key} ELSE resent
        /\ runs' = [runs EXCEPT ![r] = [run EXCEPT !.pc = "update", !.delivery = "sent"]]
        /\ UNCHANGED <<clock, lastTick, users, habits, faults, edits, marked,
                       wmCause, abort, logVars, query, proc>>

\* bot.api.sendMessage rejects: the catch block logs the error and returns.
DeliverFail(r) ==
    LET run == runs[r]
    IN  /\ run.pc = "deliver"
        /\ faults < MaxFaults
        /\ faults' = faults + 1
        /\ runs' = [runs EXCEPT ![r] = [run EXCEPT !.pc = "update", !.delivery = "failed"]]
        /\ UNCHANGED <<clock, lastTick, users, habits, edits, delivered,
                       marked, resent, wmCause, abort, logVars, query, proc>>

\* prisma.user.update writes the watermark; the loop goes on.
Update(r) ==
    LET run == runs[r]
        userId == run.users[run.idx].id
    IN  /\ run.pc = "update"
        /\ users' = setWatermark(users, userId, run.type, run.todayDate)
        /\ wmCause' = [wmCause EXCEPT ![userId][run.type] = run.delivery]
        /\ marked' = marked \cup {<<userId, run.type, run.todayDate>>}
        /\ runs' = [runs EXCEPT ![r] = continueLoop(run, run.idx + 1, Now)]
        /\ proc' = [proc EXCEPT !.abandoned = @ \ {<<userId, run.type, run.todayDate>>}]
        /\ UNCHANGED <<clock, lastTick, habits, faults, edits, delivered,
                       resent, abort, logVars, query>>

\* prisma.user.update throws.
UpdateFail(r) ==
    /\ runs[r].pc = "update"
    /\ throwFromPass(r, runs[r].users[runs[r].idx].id)
    /\ UNCHANGED <<clock, lastTick, users, habits, edits, delivered,
                   marked, resent, wmCause, logVars, query, proc>>

SweepStep ==
    \E r \in RunIds :
        \/ Fetch(r) \/ Habits(r) \/ Deliver(r) \/ Update(r)

SweepFault ==
    \E r \in RunIds :
        \/ FetchFail(r) \/ HabitsFail(r) \/ DeliverFail(r) \/ UpdateFail(r)

(* ------------------------------ index.ts ------------------------------ *)
\* A shutdown that records the watermark of the deliveries in flight.
shutdownUsersMarkingInFlight(us, rs) ==
    [u \in DOMAIN us |->
        LET inFlight == {r \in DOMAIN rs : /\ rs[r].pc = "deliver"
                                           /\ rs[r].users[rs[r].idx].id = u}
        IN  IF inFlight = {} THEN us[u]
            ELSE LET run == rs[CHOOSE r \in inFlight : TRUE]
                 IN  [us[u] EXCEPT ![lastField(run.type)] = <<run.todayDate>>]]

\* The User table after shutdown(signal): stopScheduler, bot.stop,
\* closeDatabase and process.exit write no row.
shutdownUsers(us, rs) == us

\* shutdown(signal) up to `await closeDatabase()`: stopScheduler() stops the
\* cron task, so no tick starts any more; the invocation in flight goes on.
Shutdown ==
    /\ proc.state = "running"
    /\ proc.shutdowns < MaxShutdowns
    /\ proc' = [proc EXCEPT !.state = "stopping", !.shutdowns = @ + 1]
    /\ users' = shutdownUsers(users, runs)
    /\ UNCHANGED <<clock, habits, faults, edits, sweepVars, logVars, query>>

\* process.exit(0): what was awaiting is abandoned, the sweep invocations and
\* the toggle calls with it.
Exit ==
    /\ proc.state = "stopping"
    /\ proc' = [proc EXCEPT
                  !.state = "down",
                  !.abandoned = @ \cup
                      {<<runs[r].users[runs[r].idx].id, runs[r].type, runs[r].todayDate>>
                       : r \in {q \in RunIds : runs[q].pc = "deliver"}}]
    /\ users' = shutdownUsers(users, runs)
    /\ runs' = [r \in RunIds |-> IdleRun]
    /\ calls' = [c \in CallIds |-> IdleCall]
    /\ UNCHANGED <<clock, lastTick, habits, logs, delivered, marked, resent,
                   wmCause, abort, toggled, faults, edits, toggles, query>>

\* main(): the process starts again and startScheduler schedules the task.
Restart ==
    /\ proc.state = "down"
    /\ proc' = [proc EXCEPT !.state = "running"]
    /\ UNCHANGED <<clock, users, habits, faults, edits, sweepVars, logVars, query>>

(* ------------------------- settings handlers -------------------------- *)
\* handleSettingsCallback, 'morning_toggle' / 'evening_toggle'.
SettingsToggle(u, type) ==
    /\ edits < MaxEdits
    /\ edits' = edits + 1
    /\ users' = updateUserSettings(users, u,
                    IF type = "morning"
                    THEN [morningEnabled |-> ~users[u].morningEnabled]
                    ELSE [eveningEnabled |-> ~users[u].eveningEnabled])
    /\ UNCHANGED <<clock, habits, faults, sweepVars, logVars, query, proc>>

\* setMorningTimeConversation / setEveningTimeConversation: an input that is
\* not a valid time is answered with an error and stores nothing.
SetTime(u, type, input) ==
    /\ edits < MaxEdits
    /\ edits' = edits + 1
    /\ users' = IF ~isValidTime(input) THEN users
                ELSE updateUserSettings(users, u,
                         IF type = "morning" THEN [morningTime |-> input]
                         ELSE [eveningTime |-> input])
    /\ UNCHANGED <<clock, habits, faults, sweepVars, logVars, query, proc>>

\* setTimezoneConversation / handleTimezoneInput with a text message: a text
\* that parseTimezoneFromText refuses is answered with an error and nothing
\* is stored.
handleTimezoneInput(u, input) ==
    LET offsetMinutes == parseTimezoneFromText(input)
    IN  /\ edits < MaxEdits
        /\ edits' = edits + 1
        /\ users' = IF offsetMinutes = Null THEN users
                    ELSE updateUserSettings(users, u,
                             [timezoneOffset |-> <<offsetMinutes[1]>>])
        /\ UNCHANGED <<clock, habits, faults, sweepVars, logVars, proc>>

SetTimezone(u, input) == handleTimezoneInput(u, input) /\ UNCHANGED query

\* The texts a user sends as a timezone: "-12", "14", "15", "abc", "UTC+3",
\* "utc-5", "5,5", "-12.5", "14.1", "3x", " 3 ", "3.333", ".5", "-", "UTC".
TimezoneTexts ==
    TimezoneInputs \cup
    {<<"a", "b", "c">>, <<"U", "T", "C", "+", "3">>, <<"u", "t", "c", "-", "5">>,
     <<"5", ",", "5">>, <<"-", "1", "2", ".", "5">>, <<"1", "4", ".", "1">>,
     <<"3", "x">>, <<" ", "3", " ">>, <<"3", ".", "3", "3", "3">>,
     <<".", "5">>, <<"-">>, <<"U", "T", "C">>}

\* The same handler, the text and the offset stored before it kept at hand.
TimezoneText ==
    \E u \in DOMAIN users, text \in TimezoneTexts :
        /\ handleTimezoneInput(u, text)
        /\ query' = [op |-> "timezone", user |-> u, text |-> text,
                     before |-> users[u].timezoneOffset]

SettingsEdit ==
    \E u \in DOMAIN users :
        \/ \E type \in Types : SettingsToggle(u, type)
        \/ \E type \in Types, input \in TimeInputs : SetTime(u, type, input)
        \/ \E input \in TimezoneInputs : SetTimezone(u, input)

(* --------------------------- habit handlers --------------------------- *)
\* An ownership check that only looks whether the habit exists.
ownsHabitUnchecked(hs, u, h) == h \in DOMAIN hs

\* if (!habit || habit.userId !== user.id) return: the habit exists and is
\* the user's.
ownsHabit(hs, u, h) == h \in DOMAIN hs /\ hs[h].userId = u

\* handleHabitConfirmDelete: only the owner's habit is deactivated.
handleHabitConfirmDelete(u, h) ==
    /\ edits < MaxEdits
    /\ edits' = edits + 1
    /\ habits' = IF ~ownsHabit(habits, u, h) THEN habits
                 ELSE deleteHabit(habits, h)
    /\ UNCHANGED <<clock, users, faults, sweepVars, logVars, proc>>

HabitConfirmDelete(u, h) == handleHabitConfirmDelete(u, h) /\ UNCHANGED query

\* The entry of (habit, date) as the claims speak of it.
entryState(lg, habitId, date) ==
    LET log == getHabitLog(lg, habitId, date)
    IN  IF log = Null THEN "absent"
        ELSE IF log[1].completed THEN "true" ELSE "false"

\* handleHabitToggle up to the first suspension of toggleHabitCompletion:
\* the ownership check, targetDate = date ?? getTodayDate(timezoneOffset)
\* with timezoneOffset = user.timezoneOffset ?? 0, and the getHabitLog query.
handleHabitToggle(c, u, h, date) ==
    LET timezoneOffset ==
            IF users[u].timezoneOffset = Null THEN 0 ELSE users[u].timezoneOffset[1]
        targetDate == IF date = Null THEN getTodayDate(Now, timezoneOffset) ELSE date[1]
    IN  /\ calls[c].pc = "idle"
        /\ \A q \in CallIds : q < c => calls[q].pc # "idle"
        /\ ownsHabit(habits, u, h)
        /\ toggles < MaxToggles
        /\ toggles' = toggles + 1
        /\ calls' = [calls EXCEPT ![c] =
                       [pc |-> "write", habitId |-> h, date |-> targetDate,
                        existingLog |-> getHabitLog(logs, h, targetDate),
                        clean |-> TRUE]]
        /\ UNCHANGED <<clock, users, habits, logs, toggled, faults, edits, sweepVars, proc>>

ToggleRead(c, u, h, date) == handleHabitToggle(c, u, h, date) /\ UNCHANGED query

\* The same handler with the callback kept at hand; a callback that names a
\* habit of another user, or none, is answered and nothing else happens.
HabitToggleCallback(c, u, h, date) ==
    /\ query' = [op |-> "habit_toggle", user |-> u, habitId |-> h]
    /\ IF ownsHabit(habits, u, h) THEN handleHabitToggle(c, u, h, date)
       ELSE /\ toggles < MaxToggles
            /\ toggles' = toggles + 1
            /\ UNCHANGED <<clock, users, habits, logs, calls, toggled, faults,
                           edits, sweepVars, proc>>

HabitConfirmDeleteCallback(u, h) ==
    /\ query' = [op |-> "habit_confirm_delete", user |-> u, habitId |-> h]
    /\ handleHabitConfirmDelete(u, h)

\* An update that marks the entry completed instead of negating it.
habitLogUpdateMarkingCompleted(lg, existingLog) ==
    {IF e.id = existingLog.id THEN [e EXCEPT !.completed = TRUE] ELSE e : e \in lg}

\* prisma.habitLog.update({ where: { id }, data: { completed: !existingLog.completed } })
habitLogUpdate(lg, existingLog) ==
    {IF e.id = existingLog.id THEN [e EXCEPT !.completed = ~existingLog.completed]
     ELSE e : e \in lg}

\* A create on a table without the unique index habitId_date.
habitLogCreateWithoutUniqueIndex(lg, habitId, date) ==
    [logs |-> lg \cup {[id |-> Cardinality(lg) + 1, habitId |-> habitId,
                       date |-> date, completed |-> TRUE]},
     threw |-> FALSE]

\* prisma.habitLog.create({ data: { habitId, date, completed: true } }): the
\* unique index habitId_date rejects a second entry of the pair.  The result
\* is the new table and whether the call threw.
habitLogCreate(lg, habitId, date) ==
    IF \E e \in lg : e.habitId = habitId /\ e.date = date
    THEN [logs |-> lg, threw |-> TRUE]
    ELSE [logs |-> lg \cup {[id |-> Cardinality(lg) + 1, habitId |-> habitId,
                             date |-> date, completed |-> TRUE]},
          threw |-> FALSE]

\* toggleHabitCompletion after getHabitLog has returned.
toggleHabitCompletion(lg, call) ==
    IF call.existingLog # Null
    THEN [logs |-> habitLogUpdate(lg, call.existingLog[1]), threw |-> FALSE]
    ELSE habitLogCreate(lg, call.habitId, call.date)

ToggleWrite(c) ==
    LET call == calls[c]
        result == toggleHabitCompletion(logs, call)
        sequential == call.clean /\ ~result.threw
    IN  /\ call.pc = "write"
        /\ logs' = result.logs
        /\ calls' = [q \in CallIds |->
                       IF q = c THEN IdleCall
                       ELSE IF /\ calls[q].pc = "write"
                               /\ calls[q].habitId = call.habitId
                               /\ calls[q].date = call.date
                       THEN [calls[q] EXCEPT !.clean = FALSE]
                       ELSE calls[q]]
        /\ toggled' =
             LET state == entryState(logs, call.habitId, call.date)
             IN  IF ~sequential THEN NoToggle
                 ELSE IF toggled.habitId = call.habitId /\ toggled.date = call.date
                 THEN [toggled EXCEPT !.before =
                          <<toggled.before[Len(toggled.before)], state>>]
                 ELSE [habitId |-> call.habitId, date |-> call.date,
                       before |-> <<state>>]
        /\ UNCHANGED <<clock, users, habits, faults, edits, toggles, sweepVars, query, proc>>

\* The dates a toggle can name besides today (the day views).
ViewDates == {FirstDay - 1, FirstDay}

ToggleStart ==
    \E c \in CallIds, u \in DOMAIN users, h \in HabitIds,
       date \in {Null} \cup {<<d>> : d \in ViewDates} : ToggleRead(c, u, h, date)

ToggleFinish == \E c \in CallIds : ToggleWrite(c)

HabitToggle == ToggleStart \/ ToggleFinish

HabitDelete == \E u \in DOMAIN users, h \in HabitIds : HabitConfirmDelete(u, h)

(* ------------------------- read-only handlers ------------------------- *)
otherVars ==
    <<clock, users, habits, faults, edits, sweepVars, logVars, proc>>

\* user.timezoneOffset ?? 0 (showHabitsList) and the null that showStats
\* passes on, which getNowInTimezone multiplies into 0.
handlerTimezoneOffset(row) ==
    IF row.timezoneOffset = Null THEN 0 ELSE row.timezoneOffset[1]

\* getWeekStartMonday: startOfWeek(now, { weekStartsOn: 1 }).
getWeekStartMonday(today) == today - ((getDayOfWeek(today) + 6) % 7)

\* showHabitsList(ctx, date): the today view when the date is today's, the
\* date view otherwise.
ShowHabitsList(u, date) ==
    LET todayDate == getTodayDate(Now, handlerTimezoneOffset(users[u]))
        viewDate == IF date = Null THEN todayDate ELSE date[1]
        isToday == viewDate = todayDate
    IN  /\ query' = [op |-> "habits", user |-> u, date |-> viewDate,
                     isToday |-> isToday,
                     habits |->
                        IF isToday
                        THEN getUserHabitsWithTodayStatus(habits, logs, u, todayDate)
                        ELSE getUserHabitsWithDateStatus(habits, logs, u, viewDate)]
        /\ UNCHANGED otherVars

\* showStats / handleStats: getUserStats(user.id, user.timezoneOffset).
ShowStats(u) ==
    LET today == getTodayDate(Now, handlerTimezoneOffset(users[u]))
    IN  /\ query' = [op |-> "stats", user |-> u, date |-> today,
                     stats |-> getUserStats(habits, logs, u, today)]
        /\ UNCHANGED otherVars

\* showWeekly(ctx, weekStartMonday): timezoneOffset = user.timezoneOffset ?? 180.
ShowWeekly(u, weekStartMonday) ==
    LET today == getTodayDate(Now, sweepTimezoneOffset(users[u]))
        weekStart == IF weekStartMonday = Null THEN getWeekStartMonday(today)
                     ELSE weekStartMonday[1]
    IN  /\ query' = [op |-> "weekly", user |-> u, date |-> today,
                     weekStart |-> weekStart,
                     rows |-> getWeeklyData(habits, logs, u, weekStart, today)]
        /\ UNCHANGED otherVars

ShowHabits ==
    \E u \in DOMAIN users, date \in {Null} \cup {<<d>> : d \in ViewDates} :
        ShowHabitsList(u, date)

Stats == \E u \in DOMAIN users : ShowStats(u)

Weekly ==
    \E u \in DOMAIN users, weekStartMonday \in {Null, <<FirstDay - 7>>} :
        ShowWeekly(u, weekStartMonday)

(* -------------------- bot/conversations/addHabit.ts ------------------- *)
\* The interval length stored whatever the text says.
intervalDaysUnchecked(daysInput) ==
    IF daysInput = Null THEN 1 ELSE daysInput[1]

\* if (isNaN(daysInput) || daysInput < 1 || daysInput > 365) frequencyDays = 1;
\* else frequencyDays = daysInput;
intervalDays(daysInput) ==
    IF daysInput = Null \/ daysInput[1] < 1 \/ daysInput[1] > 365 THEN 1
    ELSE daysInput[1]

\* createHabit(input): the id is the next of the table, createdAt is now().
createHabit(hs, input, now) ==
    LET id == Max(DOMAIN hs) + 1
    IN  [h \in DOMAIN hs \cup {id} |->
            IF h \in DOMAIN hs THEN hs[h]
            ELSE [userId |-> input.userId, isActive |-> TRUE,
                  frequencyType |-> input.frequencyType,
                  frequencyDays |-> input.frequencyDays,
                  weekdays |-> input.weekdays,
                  createdAt |-> now]]

\* The texts sent as the number of days and the days of the week selected.
DaysTexts ==
    {<<"3">>, <<"0">>, <<"-", "1">>, <<"3", "6", "5">>, <<"3", "6", "6">>,
     <<"1", "0", "0", "0">>, <<"x">>, <<"2", "x">>, <<" ", "7">>}
SelectedDays == {{1}, {0, 6}, {1, 3, 5}}

\* addHabitConversation from the choice of the frequency type on: the answer
\* is the number of days of 'freqtype:interval' and the days selected of
\* 'freqtype:weekdays' ('weekdays:done' is refused while none is selected).
AddHabit(u, freqTypeData, text, selectedDays) ==
    LET frequencyType ==
            IF freqTypeData \in {"interval", "weekdays"} THEN freqTypeData
            ELSE "daily"
        frequencyDays ==
            IF freqTypeData = "interval" THEN intervalDays(parseInt(text)) ELSE 1
        weekdays == IF freqTypeData = "weekdays" THEN selectedDays ELSE {}
    IN  /\ Cardinality(DOMAIN habits) < MaxHabits
        /\ freqTypeData = "weekdays" => selectedDays # {}
        /\ habits' = createHabit(habits,
                        [userId |-> u, frequencyType |-> frequencyType,
                         frequencyDays |-> frequencyDays, weekdays |-> weekdays],
                        Now)
        /\ query' = [op |-> "addHabit", user |-> u,
                     habitId |-> Max(DOMAIN habits) + 1,
                     freqTypeData |-> freqTypeData,
                     text |-> IF freqTypeData = "interval" THEN text ELSE <<>>]
        /\ UNCHANGED <<clock, users, faults, edits, sweepVars, logVars, proc>>

AddDaily == \E u \in DOMAIN users : AddHabit(u, "daily", <<>>, {})

AddInterval ==
    \E u \in DOMAIN users, text \in DaysTexts : AddHabit(u, "interval", text, {})

AddWeekdays ==
    \E u \in DOMAIN users, selectedDays \in SelectedDays :
        AddHabit(u, "weekdays", <<>>, selectedDays)

(* --------------------------- specifications --------------------------- *)
\* The sweep when every invocation returns before the next tick, with the
\* settings handlers and the deletion of habits.
NextSerial ==
    \/ Advance
    \/ CronTickIdle
    \/ SweepStep
    \/ SweepFault
    \/ SettingsEdit
    \/ HabitDelete

SpecSerial == Init /\ [][NextSerial]_vars

\* The sweep with ticks that do not wait for the invocation before them, the
\* settings left as they are.
NextOverlap ==
    \/ Advance
    \/ CronTick
    \/ SweepStep
    \/ SweepFault

SpecOverlap == Init /\ [][NextOverlap]_vars

\* The sweep over two users, the settings left as they are.
NextPair ==
    \/ Advance
    \/ CronTickIdle
    \/ SweepStep
    \/ SweepFault

SpecPair == InitPair /\ [][NextPair]_vars

\* The completion log and the handlers that write the habit tables.
NextLog ==
    \/ Advance
    \/ HabitToggle
    \/ HabitDelete
    \/ \E u \in DOMAIN users, input \in TimezoneInputs : SetTimezone(u, input)

SpecLog == Init /\ [][NextLog]_vars

\* Every handler together with the sweep, the handler invocations bounded
\* together.
MayInteract == edits + toggles < MaxInteractions
SettingsInteraction == MayInteract /\ SettingsEdit
DeleteInteraction == MayInteract /\ HabitDelete
ToggleInteraction == MayInteract /\ ToggleStart

Next ==
    \/ Advance
    \/ CronTickIdle
    \/ SweepStep
    \/ SweepFault
    \/ SettingsInteraction
    \/ DeleteInteraction
    \/ ToggleInteraction
    \/ ToggleFinish

Spec == InitInterval /\ [][Next]_vars

\* The views and the statistics beside the handlers that write the habit
\* tables, the handler invocations bounded together.
TimezoneInteraction ==
    /\ MayInteract
    /\ \E u \in DOMAIN users, input \in TimezoneInputs : SetTimezone(u, input)

NextView ==
    \/ Advance
    \/ TimezoneInteraction
    \/ DeleteInteraction
    \/ ToggleInteraction
    \/ ToggleFinish
    \/ ShowHabits
    \/ Stats
    \/ Weekly

InitView == InitWith({1}, {DailyRule, IntervalRule, WeekdaysRule})

SpecView == InitView /\ [][NextView]_vars

\* The due predicates applied to every rule over a window of dates.
DueRules ==
    {DailyRule}
      \cup {[frequencyType |-> "interval", frequencyDays |-> n, weekdays |-> {}]
            : n \in 1..MaxFrequencyDays}
      \cup {[frequencyType |-> "weekdays", frequencyDays |-> 1, weekdays |-> S]
            : S \in SUBSET (0..6)}
DueDates == FirstDay..(FirstDay + DueWindowDays - 1)
OptionalDueDates == {Null} \cup {<<d>> : d \in DueDates}

\* The calls of the due predicates: the arguments, and the value returned
\* once the call has been made.
DueRequests ==
    {[op |-> op, rule |-> rule, reference |-> reference, date |-> date,
      done |-> FALSE, result |-> FALSE]
     : op \in {"isHabitDueOnDate", "isHabitDueToday"}, rule \in DueRules,
       reference \in OptionalDueDates, date \in DueDates}

DueOnDate ==
    /\ query.op = "isHabitDueOnDate" /\ ~query.done
    /\ query' = [query EXCEPT
                   !.done = TRUE,
                   !.result = isHabitDueOnDate(query.rule.frequencyType,
                                  query.rule.frequencyDays, query.rule.weekdays,
                                  query.reference, query.date)]
    /\ UNCHANGED otherVars

DueToday ==
    /\ query.op = "isHabitDueToday" /\ ~query.done
    /\ query' = [query EXCEPT
                   !.done = TRUE,
                   !.result = isHabitDueToday(query.rule.frequencyType,
                                  query.rule.frequencyDays, query.rule.weekdays,
                                  query.reference, query.date)]
    /\ UNCHANGED otherVars

NextDue ==
    \/ DueOnDate
    \/ DueToday

InitDue == InitRequests({1}, {DailyRule}, {{}}, DueRequests)

SpecDue == InitDue /\ [][NextDue]_vars

\* The statistics over drawn completion logs of habit 1: any set of completed
\* dates among the days around the first day, with or without an entry that
\* is not completed, and the runs of consecutive completed days that begin
\* one day before the rate window of the first day.
StatDates == (FirstDay - MaxDaysBack)..(FirstDay + 1)

logTable(habitId, done, undone) ==
    {[id |-> Cardinality({x \in done \cup undone : x <= d}), habitId |-> habitId,
      date |-> d, completed |-> d \in done] : d \in done \cup undone}

StatTables ==
    {logTable(1, done, undone \ done)
       : done \in SUBSET StatDates, undone \in {{}, {FirstDay - 1}}}
      \cup {logTable(1, (FirstDay - RateWindowDays)..(FirstDay - RateWindowDays + k), {})
            : k \in 0..(RateWindowDays + 1)}

StatRules ==
    {[frequencyType |-> "interval", frequencyDays |-> n, weekdays |-> {}]
     : n \in 1..MaxFrequencyDays}

\* The windows calculateCompletionRate is asked for.
WindowDays == {1, 2, 3, 7, RateWindowDays}

\* calculateCompletionRate(habitId, frequencyDays, days, timezoneOffset)
CompletionRate ==
    \E h \in DOMAIN habits, days \in WindowDays :
        LET today == getTodayDate(Now, handlerTimezoneOffset(users[habits[h].userId]))
        IN  /\ query' = [op |-> "calculateCompletionRate", habitId |-> h,
                         days |-> days, date |-> today,
                         result |-> calculateCompletionRate(logs, h,
                                        habits[h].frequencyDays, days, today)]
            /\ UNCHANGED otherVars

NextStats ==
    \/ Advance
    \/ Stats
    \/ CompletionRate

InitStats == InitTables({1}, StatRules, StatTables)

SpecStats == InitStats /\ [][NextStats]_vars

\* The add-habit wizard beside the habit list.
NextWizard ==
    \/ Advance
    \/ AddDaily
    \/ AddInterval
    \/ AddWeekdays
    \/ ShowHabits

InitWizard == InitWith({1}, {DailyRule})

SpecWizard == InitWizard /\ [][NextWizard]_vars

\* The serial sweep of a process that is shut down and started again.
NextShutdown ==
    \/ Advance
    \/ CronTickIdle
    \/ SweepStep
    \/ SweepFault
    \/ Shutdown
    \/ Exit
    \/ Restart

SpecShutdown == Init /\ [][NextShutdown]_vars

\* The timezone texts beside the views that derive the local date.
NextTimezone ==
    \/ Advance
    \/ TimezoneText
    \/ Stats

SpecTimezone == Init /\ [][NextTimezone]_vars

\* The serial sweep beside the edits of a channel's time and switch, the
\* timezone left as it is.
ChannelTimes == TimeInputs \cup {[hh |-> 0, mm |-> 0], [hh |-> 7, mm |-> 59]}

ChannelEdit ==
    \E u \in DOMAIN users, type \in Types :
        \/ SettingsToggle(u, type)
        \/ \E input \in ChannelTimes : SetTime(u, type, input)

NextChannel ==
    \/ Advance
    \/ CronTickIdle
    \/ SweepStep
    \/ SweepFault
    \/ ChannelEdit

SpecChannel == Init /\ [][NextChannel]_vars

\* The callbacks of two users that name any habit id, of the user, of the
\* other user or of no habit.
CallbackHabitIds == HabitIds \cup {Max(HabitIds) + 1}

ToggleCallback ==
    /\ MayInteract
    /\ \E c \in CallIds, u \in DOMAIN users, h \in CallbackHabitIds,
          date \in {Null} \cup {<<d>> : d \in ViewDates} :
          HabitToggleCallback(c, u, h, date)

DeleteCallback ==
    /\ MayInteract
    /\ \E u \in DOMAIN users, h \in CallbackHabitIds :
          HabitConfirmDeleteCallback(u, h)

NextOwner ==
    \/ Advance
    \/ ToggleCallback
    \/ ToggleFinish
    \/ DeleteCallback

SpecOwner == InitPair /\ [][NextOwner]_vars

\* The today view of an interval habit whose log holds completions of the
\* days before the first day, beside the toggles and the passing of time.
TodayTables ==
    {logTable(1, done, {}) : done \in SUBSET ((FirstDay - MaxFrequencyDays)..(FirstDay - 1))}

NextToday ==
    \/ Advance
    \/ ToggleInteraction
    \/ ToggleFinish
    \/ ShowHabits

InitToday == InitTables({1}, StatRules, TodayTables)

SpecToday == InitToday /\ [][NextToday]_vars

(* -------------------------- utils/callback.ts -------------------------- *)
\* A CallbackAction: its type and the properties the type carries, the
\* others undefined.
Action(type) ==
    [type |-> type, habitId |-> Null, date |-> Null, source |-> Null,
     time |-> Null, weekStart |-> Null]

DigitChar == <<"0", "1", "2", "3", "4", "5", "6", "7", "8", "9">>

\* `${n}` of an integer.
RECURSIVE naturalToString(_)
naturalToString(n) ==
    IF n < 10 THEN <<DigitChar[n + 1]>>
    ELSE naturalToString(n \div 10) \o <<DigitChar[(n % 10) + 1]>>

toString(n) == IF n < 0 THEN <<"-">> \o naturalToString(0 - n) ELSE naturalToString(n)

\* data.split(':')
RECURSIVE split(_, _)
split(text, part) ==
    IF text = <<>> THEN <<part>>
    ELSE IF Head(text) = ":" THEN <<part>> \o split(Tail(text), <<>>)
    ELSE split(Tail(text), Append(part, Head(text)))

\* parts[i], undefined past the end.
partAt(parts, i) == IF i < Len(parts) THEN <<parts[i + 1]>> ELSE Null

\* text.includes(c)
includes(text, c) == \E i \in 1..Len(text) : text[i] = c

\* serializeCallback
serializeCallback(action) ==
    CASE action.type = "habits_list" -> <<"h", ":", "l", "i", "s", "t">>
      [] action.type = "habit_add" -> <<"h", ":", "a", "d", "d">>
      [] action.type = "habits_day" -> <<"h", ":", "d", "a", "y", ":">> \o action.date[1]
      [] action.type = "habit_toggle" ->
            IF action.source = <<"evening_reminder">>
            THEN <<"h", ":", "t", "o", "g", ":">> \o toString(action.habitId[1]) \o <<":", "e", "r">>
            ELSE IF action.date # Null /\ action.date[1] # <<>>
            THEN <<"h", ":", "t", "o", "g", ":">> \o toString(action.habitId[1]) \o <<":">> \o action.date[1]
            ELSE <<"h", ":", "t", "o", "g", ":">> \o toString(action.habitId[1])
      [] action.type = "habit_delete" -> <<"h", ":", "d", "e", "l", ":">> \o toString(action.habitId[1])
      [] action.type = "habit_confirm_delete" -> <<"h", ":", "c", "d", "e", "l", ":">> \o toString(action.habitId[1])
      [] action.type = "habit_details" -> <<"h", ":", "d", "e", "t", ":">> \o toString(action.habitId[1])
      [] action.type = "stats" -> <<"s", ":", "m", "a", "i", "n">>
      [] action.type = "weekly_show" ->
            IF action.weekStart # Null /\ action.weekStart[1] # <<>>
            THEN <<"s", ":", "w", "e", "e", "k", ":">> \o action.weekStart[1]
            ELSE <<"s", ":", "w", "e", "e", "k">>
      [] action.type = "weekly_prev" -> <<"s", ":", "w", "e", "e", "k", ":", "p", "r", "e", "v", ":">> \o action.weekStart[1]
      [] action.type = "weekly_next" -> <<"s", ":", "w", "e", "e", "k", ":", "n", "e", "x", "t", ":">> \o action.weekStart[1]
      [] action.type = "settings" -> <<"s", "e", "t", ":", "m", "a", "i", "n">>
      [] action.type = "settings_morning" -> <<"s", "e", "t", ":", "m", "o", "r", ":">> \o action.time[1]
      [] action.type = "settings_evening" -> <<"s", "e", "t", ":", "e", "v", "e", ":">> \o action.time[1]
      [] action.type = "settings_reminders_toggle" -> <<"s", "e", "t", ":", "r", "e", "m">>
      [] action.type = "back_to_menu" -> <<"m", "e", "n", "u">>
      [] action.type = "save_day" -> <<"s", "a", "v", "e">>
      [] action.type = "noop" -> <<"n", "o", "o", "p">>

\* case 'tog', 'del', 'cdel', 'det': the habit id of parts[2], null when it
\* is not a number.
habitAction(type, parts) ==
    LET habitId == parseInt(IF partAt(parts, 2) = Null THEN <<>> ELSE parts[3])
    IN  IF habitId = Null THEN Null
        ELSE <<[Action(type) EXCEPT !.habitId = habitId]>>

\* case 'mor', 'eve': time: parts[2] ?? '08:00'
parseTimeAction(type, data, parts, default) ==
    <<[Action(type) EXCEPT
         !.time = IF partAt(parts, 2) = Null THEN <<default>> ELSE <<parts[3]>>]>>

\* parseCallback: the action of a callback_data string, or null.
parseCallback(data) ==
    LET parts == split(data, <<>>)
        prefix == parts[1]
        subAction == partAt(parts, 1)
    IN  CASE prefix = <<"h">> ->
               CASE subAction = <<<<"l", "i", "s", "t">>>> -> <<Action("habits_list")>>
                 [] subAction = <<<<"a", "d", "d">>>> -> <<Action("habit_add")>>
                 [] subAction = <<<<"d", "a", "y">>>> ->
                       IF partAt(parts, 2) = Null \/ parts[3] = <<>> THEN Null
                       ELSE <<[Action("habits_day") EXCEPT !.date = <<parts[3]>>]>>
                 [] subAction = <<<<"t", "o", "g">>>> ->
                       LET toggle == habitAction("habit_toggle", parts)
                           extra == partAt(parts, 3)
                       IN  IF toggle = Null THEN Null
                           ELSE IF extra = <<<<"e", "r">>>>
                           THEN <<[toggle[1] EXCEPT !.source = <<"evening_reminder">>]>>
                           ELSE IF extra # Null /\ includes(extra[1], "-")
                           THEN <<[toggle[1] EXCEPT !.date = extra]>>
                           ELSE toggle
                 [] subAction = <<<<"d", "e", "l">>>> -> habitAction("habit_delete", parts)
                 [] subAction = <<<<"c", "d", "e", "l">>>> -> habitAction("habit_confirm_delete", parts)
                 [] subAction = <<<<"d", "e", "t">>>> -> habitAction("habit_details", parts)
                 [] OTHER -> Null
          [] prefix = <<"s">> ->
               IF subAction = <<<<"m", "a", "i", "n">>>> THEN <<Action("stats")>>
               ELSE IF subAction = <<<<"w", "e", "e", "k">>>>
               THEN LET dir == partAt(parts, 2)
                        weekStart == partAt(parts, 3)
                    IN  IF dir = <<<<"p", "r", "e", "v">>>> /\ weekStart # Null /\ weekStart[1] # <<>>
                        THEN <<[Action("weekly_prev") EXCEPT !.weekStart = weekStart]>>
                        ELSE IF dir = <<<<"n", "e", "x", "t">>>> /\ weekStart # Null /\ weekStart[1] # <<>>
                        THEN <<[Action("weekly_next") EXCEPT !.weekStart = weekStart]>>
                        ELSE IF dir # Null /\ dir[1] # <<>>
                                /\ dir # <<<<"p", "r", "e", "v">>>> /\ dir # <<<<"n", "e", "x", "t">>>>
                        THEN <<[Action("weekly_show") EXCEPT !.weekStart = dir]>>
                        ELSE <<Action("weekly_show")>>
               ELSE Null
          [] prefix = <<"s", "e", "t">> ->
               CASE subAction = <<<<"m", "a", "i", "n">>>> -> <<Action("settings")>>
                 [] subAction = <<<<"m", "o", "r">>>> ->
                       parseTimeAction("settings_morning", data, parts, <<"0", "8", ":", "0", "0">>)
                 [] subAction = <<<<"e", "v", "e">>>> ->
                       parseTimeAction("settings_evening", data, parts, <<"2", "1", ":", "0", "0">>)
                 [] subAction = <<<<"r", "e", "m">>>> -> <<Action("settings_reminders_toggle")>>
                 [] OTHER -> Null
          [] prefix = <<"m", "e", "n", "u">> -> <<Action("back_to_menu")>>
          [] prefix = <<"s", "a", "v", "e">> -> <<Action("save_day")>>
          [] prefix = <<"n", "o", "o", "p">> -> <<Action("noop")>>
          [] OTHER -> Null

\* The actions the keyboards are built from, and callback_data that no
\* keyboard of the bot carries.
CallbackHabitNumbers == {1, 12, 305}
CallbackDates == {<<"2", "0", "2", "4", "-", "0", "1", "-", "0", "1">>, <<"2", "0", "2", "3", "-", "1", "2", "-", "2", "5">>}
CallbackTimes == {<<"0", "8", ":", "0", "0">>, <<"2", "1", ":", "0", "0">>, <<"0", "7", ":", "5", "9">>}

CallbackActions ==
    {Action(type) : type \in {"habits_list", "habit_add", "stats", "weekly_show",
                               "settings", "settings_reminders_toggle",
                               "back_to_menu", "save_day", "noop"}}
      \cup {[Action(type) EXCEPT !.habitId = <<n>>]
            : type \in {"habit_toggle", "habit_delete", "habit_confirm_delete",
                        "habit_details"}, n \in CallbackHabitNumbers}
      \cup {[Action("habit_toggle") EXCEPT !.habitId = <<n>>, !.date = <<d>>]
            : n \in CallbackHabitNumbers, d \in CallbackDates}
      \cup {[Action("habit_toggle") EXCEPT
               !.habitId = <<n>>, !.source = <<"evening_reminder">>]
            : n \in CallbackHabitNumbers}
      \cup {[Action("habits_day") EXCEPT !.date = <<d>>] : d \in CallbackDates}
      \cup {[Action(type) EXCEPT !.weekStart = <<d>>]
            : type \in {"weekly_show", "weekly_prev", "weekly_next"},
              d \in CallbackDates}
      \cup {[Action(type) EXCEPT !.time = <<t>>]
            : type \in {"settings_morning", "settings_evening"},
              t \in CallbackTimes}

UnknownData ==
    {<<>>, <<"x">>, <<"h">>, <<"h", ":">>, <<"h", ":", "t", "o", "g">>, <<"h", ":", "t", "o", "g", ":">>, <<"h", ":", "t", "o", "g", ":", "a", "b", "c">>, <<"h", ":", "d", "e", "l", ":", "x">>, <<"h", ":", "c", "d", "e", "l">>,
     <<"h", ":", "d", "e", "t", ":", "-">>, <<"h", ":", "d", "a", "y">>, <<"h", ":", "d", "a", "y", ":">>, <<"h", ":", "z", "z", "z">>, <<"s">>, <<"s", ":", "o", "t", "h", "e", "r">>, <<"s", "e", "t">>, <<"s", "e", "t", ":", "z", "z", "z">>,
     <<"s", "e", "t", "t", "i", "n", "g", "s", ":", "t", "i", "m", "e", "z", "o", "n", "e">>, <<"m", "e", "n", "u", "s">>, <<"M", "e", "n", "u">>, <<" ", "n", "o", "o", "p">>}

CallbackRequests ==
    {[op |-> "serializeCallback", stage |-> "action", action |-> a,
      data |-> <<>>, parsed |-> Null] : a \in CallbackActions}
      \cup {[op |-> "parseCallback", stage |-> "data", action |-> Action("noop"),
             data |-> d, parsed |-> Null] : d \in UnknownData}

\* A keyboard is built: the action becomes the callback_data of a button.
Serialize ==
    /\ query.op = "serializeCallback" /\ query.stage = "action"
    /\ query' = [query EXCEPT !.stage = "data",
                              !.data = serializeCallback(query.action)]
    /\ UNCHANGED otherVars

\* handleCallback: const action = parseCallback(data)
Parse ==
    /\ query.op \in {"serializeCallback", "parseCallback"}
    /\ query.stage = "data"
    /\ query' = [query EXCEPT !.stage = "parsed",
                              !.parsed = parseCallback(query.data)]
    /\ UNCHANGED otherVars

NextCallback ==
    \/ Serialize
    \/ Parse

InitCallback == InitRequests({1}, {DailyRule}, {{}}, CallbackRequests)

SpecCallback == InitCallback /\ [][NextCallback]_vars

(* ------------------------------- claims ------------------------------- *)
watermark(u, type) == users[u][lastField(type)]

\* The invocations suspended in the Send step of user u on channel type.
sendingRuns(u, type) ==
    {r \in RunIds : /\ runs[r].pc \in {"habits", "deliver", "update"}
                    /\ runs[r].type = type
                    /\ runs[r].users[runs[r].idx].id = u}

\* C1: whatever ticks and settings edits (time, enable flag, timezone
\* offset) occur, once the watermark of (user, channel) has been set to local
\* date d no later Send step delivers a reminder of d on that channel.
C1_AtMostOneSendPerLocalDate == resent = {}

\* C2: a Send step whose delivery call failed does not write the watermark,
\* so no watermark is the result of a failed delivery.
C2_FailedDeliveryLeavesWatermark ==
    \A u \in DOMAIN users, type \in Types : wmCause[u][type] # "failed"

\* C3: the first tick that finds the local time at or past the target and
\* the watermark not today's sends the reminder: once that tick has put the
\* watermark on local date d, a reminder of d has reached the user (unless
\* nothing was due).
C3_CatchUpTickSends ==
    \A u \in DOMAIN users, type \in Types :
        (watermark(u, type) # Null /\ wmCause[u][type] # "empty")
            => <<u, type, watermark(u, type)[1]>> \in delivered

\* C4: with the settings fixed, each local date sees exactly one reminder per
\* channel: no Send step starts before the target time, the tick that sets
\* the watermark to d has delivered the reminder of d, and no later tick of d
\* delivers another one.
C4_ExactlyOncePerLocalDay ==
    \A u \in DOMAIN users, type \in Types :
        /\ \A r \in sendingRuns(u, type) :
              LET target == parseTime(users[u][timeField(type)])
              IN  currentTimeInMinutes(runs[r].now, sweepTimezoneOffset(users[u]))
                      >= target.hours * 60 + target.minutes
        /\ wmCause[u][type] \in {"none", "sent", "empty"}
        /\ \A key \in resent : ~(key[1] = u /\ key[2] = type)

\* C5: no two sweep invocations are in flight together, hence no two of them
\* are inside the Send step (watermark read, delivery, watermark write) of
\* the same user and channel.
C5_NoOverlappingSweeps ==
    /\ Cardinality({r \in RunIds : runs[r].pc # "idle"}) <= 1
    /\ \A u \in DOMAIN users, type \in Types :
          Cardinality(sendingRuns(u, type)) <= 1

\* C6: a storage failure while one user is processed ends that user's
\* iteration only: no user of the pass is left unevaluated by it.
C6_FailureAbortsOnlyThatUser == abort.unevaluated = {}

\* C7: a sweep invocation that finds the channel of a user disabled does not
\* process the user: every invocation in the Send step of (user, channel) has
\* seen the enabled flag true in its query, and a reminder of (user, channel)
\* is delivered and its watermark changes in such a Send step only.
C7_DisabledChannelNotProcessed ==
    [][\A u \in DOMAIN users, type \in Types :
          /\ \A r \in sendingRuns(u, type)' :
                runs'[r].users[runs'[r].idx].row[enabledField(type)]
          /\ (\/ watermark(u, type)' # watermark(u, type)
              \/ \E key \in delivered' \ delivered : key[1] = u /\ key[2] = type)
                => sendingRuns(u, type) # {}]_vars

\* Witness of C7: the morning channel is off and was off when the tick of this
\* instant queried the users; the target time has passed, no reminder was
\* sent and the watermark is untouched while the evening pass serves the user.
C7_DisabledUserSkipped ==
    /\ ~users[1].morningEnabled
    /\ watermark(1, "morning") = Null
    /\ delivered = {}
    /\ faults = 0
    /\ lastTick = clock
    /\ \E r \in sendingRuns(1, "evening") :
          currentTimeInMinutes(runs[r].now, sweepTimezoneOffset(users[1]))
              >= parseTime(users[1].morningTime).hours * 60
                   + parseTime(users[1].morningTime).minutes

\* C8: the watermarks are written by the sweep only: a step that changes a
\* watermark is the watermark write of a Send step, and the steps of the
\* toggle, deletion and settings handlers leave both watermarks as they are.
C8_WatermarksOwnedBySweep ==
    [][\A u \in DOMAIN users, type \in Types :
          watermark(u, type)' # watermark(u, type)
             => /\ \E r \in sendingRuns(u, type) :
                      /\ runs[r].pc = "update"
                      /\ runs'[r] # runs[r]
                      /\ watermark(u, type)' = <<runs[r].todayDate>>
                /\ UNCHANGED <<edits, toggles, logs, calls, habits>>]_vars

\* Witness of C8: a watermark is set, and a settings edit and a toggle have
\* been handled.
C8_HandlersRanBesideSweep ==
    /\ watermark(1, "morning") # Null
    /\ edits = 1
    /\ toggles = 1
    /\ logs # {}

\* The entries of the log for one habit and date.
entriesOf(lg, habitId, date) ==
    {e \in lg : e.habitId = habitId /\ e.date = date}

\* C9 as stated: after two toggles in a row of one habit and date the entry
\* is what it was before them (no entry, completed = false or completed =
\* true) and the log holds exactly one entry of the pair.
C9_ToggleTwiceRestoresEntry ==
    Len(toggled.before) = 2
       => /\ entryState(logs, toggled.habitId, toggled.date) = toggled.before[1]
          /\ Cardinality(entriesOf(logs, toggled.habitId, toggled.date)) = 1

\* C9: after two toggles in a row of one habit and date the completion status
\* is what it was before them, a missing entry counting as not completed, and
\* the log holds exactly one entry of the pair.
C9_ToggleTwiceRestoresCompletion ==
    Len(toggled.before) = 2
       => /\ (entryState(logs, toggled.habitId, toggled.date) = "true")
                 <=> (toggled.before[1] = "true")
          /\ Cardinality(entriesOf(logs, toggled.habitId, toggled.date)) = 1

\* Witness of C9: two toggles in a row of a pair that had no entry.
C9_ToggledTwiceFromNoEntry ==
    /\ Len(toggled.before) = 2
    /\ toggled.before[1] = "absent"
    /\ entryState(logs, toggled.habitId, toggled.date) = "false"

\* C10: the log never holds two entries of one (habit, date) pair, and a step
\* adds an entry only for a pair that had none.
C10_OneEntryPerHabitAndDate ==
    [][/\ \A e \in logs', f \in logs' :
             (e.habitId = f.habitId /\ e.date = f.date) => e = f
       /\ \A e \in logs' :
             (\A f \in logs : f.id # e.id)
                => entriesOf(logs, e.habitId, e.date) = {}
       /\ (\E c \in CallIds : calls[c].pc = "write" /\ calls'[c].pc = "idle"
              /\ entriesOf(logs, calls[c].habitId, calls[c].date) # {})
             => Cardinality(logs') = Cardinality(logs)]_vars

\* Witness of C10: a toggle has found the entry of its pair and updated it
\* while the log holds entries of two pairs.
C10_ToggleUpdatedEntry ==
    /\ Cardinality(logs) = 2
    /\ \E e \in logs : ~e.completed

\* The habits deleteHabit has deactivated.
inactiveHabits == {h \in DOMAIN habits : ~habits[h].isActive}

\* C11: deleteHabit leaves the habit inactive and every log entry in place,
\* and from then on the habit is in no today view, date view, reminder
\* payload or weekly row and in no figure of getUserStats: no habitStats entry
\* and no completion of it in totalCompletions.
C11_DeletedHabitExcluded ==
    [][/\ habits' # habits
          => /\ logs' = logs
             /\ \A h \in DOMAIN habits :
                   habits'[h] # habits[h] => ~habits'[h].isActive
       /\ \A u \in DOMAIN users :
             \A row \in getTodayHabits(habits', logs', u,
                   getTodayDate(Instant(clock'), sweepTimezoneOffset(users'[u]))) :
                row.id \notin inactiveHabits'
       /\ (query' # query /\ query'.op = "habits")
             => \A row \in query'.habits : row.id \notin inactiveHabits
       /\ (query' # query /\ query'.op = "weekly")
             => \A row \in query'.rows : row.habitId \notin inactiveHabits
       /\ (query' # query /\ query'.op = "stats")
             => /\ \A st \in query'.stats.habitStats :
                      st.habitId \notin inactiveHabits
                /\ query'.stats.totalCompletions =
                      Cardinality({e \in logs :
                          /\ e.completed
                          /\ habits[e.habitId].userId = query'.user
                          /\ e.habitId \notin inactiveHabits})]_vars

\* C12: for an interval rule with frequencyDays = n and reference date r,
\* isHabitDueOnDate holds of d exactly when d is r plus a whole number (zero
\* included) of periods of n days: it holds of r and of no date before r.
C12_IntervalDueOnMultiples ==
    (/\ query.op = "isHabitDueOnDate" /\ query.done
     /\ query.rule.frequencyType = "interval"
     /\ query.reference # Null)
       => LET n == query.rule.frequencyDays
              r == query.reference[1]
              d == query.date
          IN  /\ query.result <=> \E k \in 0..DueWindowDays : d = r + k * n
              /\ d = r => query.result
              /\ d < r => ~query.result

\* Witness of C12: a date two periods of 3 days after the reference is due.
C12_SecondPeriodDue ==
    /\ query.op = "isHabitDueOnDate" /\ query.done
    /\ query.rule.frequencyType = "interval"
    /\ query.rule.frequencyDays = 3
    /\ query.reference # Null
    /\ query.date = query.reference[1] + 6
    /\ query.result

\* The day of the week of a date, 0 = Sunday, counted from Sunday 1970-01-04.
weekdayOf(date) == CHOOSE w \in 0..6 : (date - 3 - w) % 7 = 0

\* C13: for a weekdays rule isHabitDueToday and isHabitDueOnDate hold of a
\* date exactly when its day of the week is in the rule's set, on each date of
\* the window; with an empty set they hold of no date.
C13_WeekdaysDueOnListedDays ==
    (/\ query.op \in {"isHabitDueToday", "isHabitDueOnDate"} /\ query.done
     /\ query.rule.frequencyType = "weekdays")
       => /\ query.result <=> weekdayOf(query.date) \in query.rule.weekdays
          /\ query.rule.weekdays = {} => ~query.result

\* Witness of C13: the second Friday of the window under Monday, Wednesday,
\* Friday is due on the date path.
C13_SecondFridayDue ==
    /\ query.op = "isHabitDueOnDate" /\ query.done
    /\ query.rule.frequencyType = "weekdays"
    /\ query.rule.weekdays = {1, 3, 5}
    /\ query.date = FirstDay + 11
    /\ query.result

\* C14: for an interval rule with frequencyDays = n, isHabitDueToday holds
\* when there is no completion, and otherwise exactly when the last completed
\* date lies n days or more before today.
C14_IntervalDueAfterNDays ==
    (/\ query.op = "isHabitDueToday" /\ query.done
     /\ query.rule.frequencyType = "interval")
       => IF query.reference = Null THEN query.result
          ELSE query.result
                 <=> query.reference[1] + query.rule.frequencyDays <= query.date

\* Witness of C14: n = 3, last completion on the 7th day, due on the 10th.
C14_DueOnThirdDayAfter ==
    /\ query.op = "isHabitDueToday" /\ query.done
    /\ query.rule.frequencyType = "interval"
    /\ query.rule.frequencyDays = 3
    /\ query.reference = <<FirstDay + 6>>
    /\ query.date = FirstDay + 9
    /\ query.result

\* C15 as stated: in the today view and in the date view a habit with a
\* completed = true entry on the viewed date is reported due, whatever its
\* rule, its reference date and its creation date.
C15_CompletedDateIsDue ==
    query.op = "habits"
       => \A row \in query.habits : row.completedToday => row.isDueToday

\* C15: a habit with a completed = true entry on the viewed date is reported
\* due in the today view always, and in the date view whenever the viewed date
\* is not before the habit's creation date.
C15_CompletedDateIsDueSinceCreation ==
    query.op = "habits"
       => \A row \in query.habits :
             (/\ row.completedToday
              /\ query.isToday \/ query.date >= habitCreatedDate(habits[row.id]))
                => row.isDueToday

\* Witness of C15: the today view shows as due an interval habit completed
\* today, which its rule alone would not make due.
C15_CompletedIntervalHabitDue ==
    /\ query.op = "habits"
    /\ query.isToday
    /\ \E row \in query.habits :
          /\ row.completedToday
          /\ row.isDueToday
          /\ habits[row.id].frequencyType = "interval"
          /\ lastCompleted(logs, row.id) = <<query.date>>

\* C16: a date before the creation date of a habit is reported not due for
\* it by the today view, by the date view and by the weekly states, whatever
\* the rule.
C16_NotDueBeforeCreation ==
    /\ query.op = "habits"
          => \A row \in query.habits :
                query.date < habitCreatedDate(habits[row.id]) => ~row.isDueToday
    /\ query.op = "weekly"
          => \A row \in query.rows : \A d \in 0..6 :
                query.weekStart + d < habitCreatedDate(habits[row.habitId])
                   => row.states[d] # "missed"

\* The consecutive calendar days with a completion that end at the date.
daysInARow(done, date) ==
    Cardinality({k \in 1..Cardinality(done) :
                    \A j \in 0..(k - 1) : date - j \in done})

\* C17: for frequencyDays = 1 and a completion today, the current streak is
\* the number of consecutive calendar days with completions that end today:
\* a missing day ends the count.
C17_DailyStreakBrokenByGap ==
    query.op = "stats"
       => \A st \in query.stats.habitStats :
             LET done == completedDates(logs, st.habitId)
             IN  (habits[st.habitId].frequencyDays = 1 /\ query.date \in done)
                    => st.currentStreak = daysInARow(done, query.date)

\* C18: k completions spaced exactly frequencyDays apart, the latest today,
\* give a current streak of k; a latest completion up to today that is more
\* than frequencyDays before today gives 0.
C18_IntervalStreak ==
    query.op = "stats"
       => \A st \in query.stats.habitStats :
             LET done == completedDates(logs, st.habitId)
                 n == habits[st.habitId].frequencyDays
                 today == query.date
                 k == Cardinality(done)
                 past == {d \in done : d <= today}
             IN  /\ (k > 0 /\ done = {today - i * n : i \in 0..(k - 1)})
                       => st.currentStreak = k
                 /\ (past # {} /\ today - Max(past) > n) => st.currentStreak = 0

\* Witness of C18: n = 3 and completions today, 3 and 6 days ago: streak 3.
C18_ThreeSpacedCompletions ==
    /\ query.op = "stats"
    /\ habits[1].frequencyDays = 3
    /\ completedDates(logs, 1) = {query.date - 6, query.date - 3, query.date}
    /\ \E st \in query.stats.habitStats : st.habitId = 1 /\ st.currentStreak = 3

\* The completed dates from a to b follow one another by at most n days.
chained(done, a, b, n) ==
    \A x \in done : (a <= x /\ x < b) => \E y \in done : x < y /\ y <= x + n

\* C19: the maximal streak is 0 for an empty log, 1 for a single completion,
\* and otherwise the size of the largest set of successive completions in
\* which each is at most frequencyDays after the one before.
C19_MaxStreakIsLongestRun ==
    query.op = "stats"
       => \A st \in query.stats.habitStats :
             LET done == completedDates(logs, st.habitId)
                 n == habits[st.habitId].frequencyDays
             IN  /\ done = {} => st.maxStreak = 0
                 /\ Cardinality(done) = 1 => st.maxStreak = 1
                 /\ done # {}
                      => st.maxStreak =
                           Max({Cardinality(done \cap (a..b))
                                : <<a, b>> \in {p \in done \X done :
                                      p[1] <= p[2] /\ chained(done, p[1], p[2], n)}})

\* Witness of C19: frequencyDays 1 and completions on days 1, 2, 4, 5 of five.
C19_TwoRunsOfTwo ==
    /\ query.op = "stats"
    /\ habits[1].frequencyDays = 1
    /\ completedDates(logs, 1)
          = {FirstDay - 4, FirstDay - 3, FirstDay - 1, FirstDay}
    /\ \E st \in query.stats.habitStats : st.habitId = 1 /\ st.maxStreak = 2

\* The rate of one call: its window, frequencyDays, completions and result.
rateCalls ==
    IF query.op = "calculateCompletionRate"
    THEN {[days |-> query.days, habitId |-> query.habitId, rate |-> query.result]}
    ELSE IF query.op = "stats"
    THEN {[days |-> RateWindowDays, habitId |-> st.habitId,
           rate |-> st.completionRate] : st \in query.stats.habitStats}
    ELSE {}

C21_CompletionRateWithinPercent ==
    \A call \in rateCalls :
        habits[call.habitId].frequencyDays \in 1..365 => call.rate \in 0..100

\* C22 as stated: every habit created through the wizard has frequencyDays
\* within 1..365, a number above 365 is stored as 365 and a number below 1 as 1.
C22_IntervalInputClamped ==
    query.op = "addHabit" /\ query.freqTypeData = "interval"
       => LET daysInput == parseInt(query.text)
              stored == habits[query.habitId].frequencyDays
          IN  /\ stored \in 1..365
              /\ (daysInput # Null /\ daysInput[1] > 365) => stored = 365
              /\ (daysInput # Null /\ daysInput[1] < 1) => stored = 1

\* C22 amended: every habit created through the wizard has frequencyDays
\* within 1..365; a text whose leading integer lies within 1..365 is stored
\* as that integer, and any other text (no number, below 1, above 365) is
\* stored as 1; a habit that is not an interval habit is stored with 1.
C22_IntervalInputDefaulted ==
    query.op = "addHabit"
       => LET daysInput == parseInt(query.text)
              stored == habits[query.habitId].frequencyDays
          IN  /\ stored \in 1..365
              /\ query.freqTypeData # "interval" => stored = 1
              /\ query.freqTypeData = "interval"
                    => IF daysInput # Null /\ daysInput[1] \in 1..365
                       THEN stored = daysInput[1]
                       ELSE stored = 1

\* Witness of C22: the text 366 creates an interval habit stored with 1.
C22_AboveRangeStoredAsOne ==
    /\ query.op = "addHabit"
    /\ query.freqTypeData = "interval"
    /\ query.text = <<"3", "6", "6">>
    /\ habits[query.habitId].frequencyType = "interval"
    /\ habits[query.habitId].frequencyDays = 1

\* C23: for a user whose timezone offset is unset, a handler that derives
\* the user's local date (the statistics, the today habit list) uses the
\* offset of +180 minutes the reminder sweep uses: the date it takes for
\* today is the local date of the instant at +180.
C23_UnsetTimezoneDefaults ==
    [][(/\ query' # query
        /\ query'.op \in {"stats", "habits"}
        /\ users[query'.user].timezoneOffset = Null)
          => LET sweepToday == getTodayDate(Now, sweepTimezoneOffset(users[query'.user]))
             IN  /\ sweepToday = getTodayDate(Now, 180)
                 /\ query'.op = "stats" => query'.date = sweepToday
                 /\ query'.op = "habits"
                       => (query'.isToday <=> query'.date = sweepToday)]_vars

\* C24: the watermark of (user, channel) is written only by an invocation
\* whose delivery call for that user has returned; the shutdown and the exit
\* of the process write no watermark, so the watermark of a delivery that
\* the exit abandoned in flight is not its date, and the first tick after the
\* restart on which the reminder of that date is due and whose users query
\* returns enters the Send step for the user.
C24_WatermarkAfterDelivery ==
    [][/\ \A u \in DOMAIN users, type \in Types :
             watermark(u, type)' # watermark(u, type)
                => \E r \in RunIds :
                      /\ runs[r].pc = "update"
                      /\ runs[r].delivery \in {"sent", "failed", "empty"}
                      /\ runs[r].users[runs[r].idx].id = u
                      /\ runs[r].type = type
                      /\ watermark(u, type)' = <<runs[r].todayDate>>
       /\ proc'.state # proc.state => users' = users
       /\ \A key \in proc'.abandoned : watermark(key[1], key[2])' # <<key[3]>>
       /\ \A r \in RunIds, key \in proc.abandoned :
             (/\ runs[r].pc = "fetch" /\ runs'[r] # runs[r]
              /\ faults' = faults /\ proc' = proc
              /\ runs[r].type = key[2]
              /\ users[key[1]][enabledField(key[2])]
              /\ getTodayDate(Now, sweepTimezoneOffset(users[key[1]])) = key[3])
                => /\ runs'[r].pc = "habits"
                   /\ runs'[r].users[runs'[r].idx].id = key[1]
                   /\ runs'[r].todayDate = key[3]]_vars

\* Witness of C24: the process is running again after an exit that abandoned
\* a delivery in flight, and the Send step of that reminder has delivered it.
C24_ResentAfterRestart ==
    /\ proc.state = "running"
    /\ proc.shutdowns > 0
    /\ \E key \in proc.abandoned :
          /\ key \in delivered
          /\ \E r \in RunIds :
                /\ runs[r].pc = "update" /\ runs[r].delivery = "sent"
                /\ <<runs[r].users[runs[r].idx].id, runs[r].type, runs[r].todayDate>> = key

\* The hours a timezone text stands for, in thousandths, when the text
\* (without the UTC prefix, the comma read as a point) begins with a number.
hoursOf(text) ==
    LET offset == parseFloat(trim(replaceUTC(replaceComma(trim(text)))))
    IN  IF offset = Null THEN Null
        ELSE <<(1000 * offset[1].num) \div offset[1].den>>

GridDates == (FirstDay - 1)..(FirstDay + MaxGridDays)
dueOnView(lg, h, d) ==
    \E row \in getUserHabitsWithDateStatus(habits, lg, habits[h].userId, d) :
        row.id = h /\ row.isDueToday
referenceOf(lg, h) ==
    IF firstCompleted(lg, h) = Null THEN <<habitCreatedDate(habits[h])>>
    ELSE firstCompleted(lg, h)

\* C26 as stated: for an interval habit the status the date view reports for
\* a date d does not change when a completion on another date is added or
\* toggled.
C26_DateViewGridStable ==
    [][\A h \in DOMAIN habits, d \in GridDates :
          (/\ habits[h].frequencyType = "interval" /\ habits[h].isActive
           /\ habits' = habits
           /\ getHabitLog(logs', h, d) = getHabitLog(logs, h, d))
             => dueOnView(logs', h, d) = dueOnView(logs, h, d)]_vars

\* C26 amended: the status of date d does not change when a completion on
\* another date is added or toggled and the reference date (the first
\* completion, or the creation date if there is none) stays what it was.
C26_DateViewGridStableUnderReference ==
    [][\A h \in DOMAIN habits, d \in GridDates :
          (/\ habits[h].frequencyType = "interval" /\ habits[h].isActive
           /\ habits' = habits
           /\ getHabitLog(logs', h, d) = getHabitLog(logs, h, d)
           /\ referenceOf(logs', h) = referenceOf(logs, h))
             => dueOnView(logs', h, d) = dueOnView(logs, h, d)]_vars

\* Witness of C26: an interval habit first completed on the first day has
\* then been completed on the day after; the grid of the first day stands.
C26_LaterCompletionAdded ==
    /\ habits[1].frequencyType = "interval" /\ habits[1].isActive
    /\ completedDates(logs, 1) = {FirstDay, FirstDay + 1}
    /\ toggled.habitId = 1 /\ toggled.date = FirstDay + 1
    /\ dueOnView(logs, 1, FirstDay + 2)
    /\ ~dueOnView(logs, 1, FirstDay + 3)

\* The log without the entries dated after the date.
upTo(lg, date) == {e \in lg : e.date <= date}

\* C27: a completion dated after today is neither counted in the current
\* streak nor ends it: the current streak is the one computed on the log
\* without the entries dated after today.
C27_FutureCompletionsSkipped ==
    query.op = "stats"
       => \A st \in query.stats.habitStats :
             LET n == habits[st.habitId].frequencyDays
                 past == upTo(logs, query.date)
                 done == completedDates(past, st.habitId)
             IN  /\ st.currentStreak
                       = calculateCurrentStreak(past, st.habitId, n, query.date)
                 /\ st.currentStreak <= Cardinality(done)
                 /\ (query.date \in done /\ query.date - 1 \in done /\ n = 1)
                       => st.currentStreak >= 2

\* Witness of C27: completions yesterday, today and tomorrow, frequencyDays
\* 1: the current streak is 2.
C27_TomorrowSkipped ==
    /\ query.op = "stats"
    /\ habits[1].frequencyDays = 1
    /\ completedDates(logs, 1) = {query.date - 1, query.date, query.date + 1}
    /\ \E st \in query.stats.habitStats : st.habitId = 1 /\ st.currentStreak = 2

\* The habits of the user that are due on the date of the Send step.
dueSet(run) ==
    {row \in getUserHabitsWithTodayStatus(habits, logs, run.users[run.idx].id,
                                          run.todayDate) : row.isDueToday}

\* C28: when no habit of the user is due today, the Send step of the
\* morning and of the evening pass hands no message to the channel: it goes
\* on to the watermark with nothing delivered.
C28_EmptyDueSetSendsNothing ==
    [][\A r \in RunIds :
          (/\ runs[r].pc = "habits" /\ runs'[r] # runs[r] /\ faults' = faults
           /\ dueSet(runs[r]) = {})
             => /\ runs'[r].pc = "update"
                /\ runs'[r].delivery = "empty"
                /\ delivered' = delivered]_vars

\* Witness of C28: the evening Send step of a user without a due habit has
\* returned, and no evening message of that date was delivered.
C28_EveningSuppressed ==
    \E r \in RunIds :
        /\ runs[r].pc = "update" /\ runs[r].delivery = "empty"
        /\ runs[r].type = "evening"
        /\ dueSet(runs[r]) = {}
        /\ <<runs[r].users[runs[r].idx].id, "evening", runs[r].todayDate>>
              \notin delivered

\* C29: for every habit, log and today, the current streak is at most the
\* maximal streak of the same log.
C29_CurrentStreakAtMostMax ==
    query.op = "stats"
       => \A st \in query.stats.habitStats : st.currentStreak <= st.maxStreak

\* C30: in every Send step the local date that is written to the watermark
\* is the local date of the instant whose local time of day was compared
\* with the target time (the `now` of the pass).
C30_WatermarkDateOfComparedInstant ==
    \A r \in RunIds :
        runs[r].pc \in {"habits", "deliver", "update"}
           => runs[r].todayDate
                 = getTodayDate(runs[r].now,
                                sweepTimezoneOffset(runs[r].users[runs[r].idx].row))

\* C31: the watermark of (user, channel) is written only by a Send step
\* that handed a message to the delivery channel: a Send step that is
\* suppressed because no habit is due leaves the watermark as it was.
C31_WatermarkOnlyAfterMessage ==
    [][\A r \in RunIds, u \in DOMAIN users, type \in Types :
          (/\ runs[r].pc = "update" /\ runs[r].delivery = "empty"
           /\ runs[r].users[runs[r].idx].id = u /\ runs[r].type = type)
             => watermark(u, type)' = watermark(u, type)]_vars

otherType(type) == IF type = "morning" THEN "evening" ELSE "morning"

\* C32: the channels are independent: a pass of one channel writes only the
\* watermark of that channel, and whether a user is due on a channel does
\* not depend on the watermark, the time or the switch of the other channel.
C32_ChannelsIndependent ==
    [][\A u \in DOMAIN users, type \in Types :
          /\ watermark(u, type)' # watermark(u, type)
                => \E r \in RunIds :
                      /\ runs[r].pc = "update" /\ runs[r].type = type
                      /\ runs[r].users[runs[r].idx].id = u
          /\ \A last \in {Null, <<getTodayDate(Now, sweepTimezoneOffset(users[u]))>>},
                time \in TimeInputs, enabled \in BOOLEAN :
                LET other == otherType(type)
                    changed == [users[u] EXCEPT ![lastField(other)] = last,
                                                ![timeField(other)] = time,
                                                ![enabledField(other)] = enabled]
                IN  /\ reminderIsDue(changed, type, Now, Now)
                          = reminderIsDue(users[u], type, Now, Now)
                    /\ (\E i \in DOMAIN getUsersForReminder(
                                     [users EXCEPT ![u] = changed], type) :
                           getUsersForReminder([users EXCEPT ![u] = changed],
                                               type)[i].id = u)
                          = users[u][enabledField(type)]]_vars

\* Witness of C32: the evening pass is in the Send step of a user for a date
\* that the morning watermark of the user already holds.
C32_EveningAfterMorning ==
    \E r \in RunIds :
        /\ runs[r].pc = "deliver" /\ runs[r].type = "evening"
        /\ watermark(runs[r].users[runs[r].idx].id, "morning") = <<runs[r].todayDate>>
        /\ watermark(runs[r].users[runs[r].idx].id, "evening") # <<runs[r].todayDate>>

\* C33: within one tick, an exception that escapes the morning pass does not
\* keep the evening pass of the same tick from running: the invocation goes
\* on to the evening pass.
C33_EveningPassAfterMorningFailure ==
    [][\A r \in RunIds :
          (/\ runs[r].pc # "idle" /\ runs[r].type = "morning"
           /\ faults' # faults /\ runs'[r] # runs[r]
           /\ runs'[r].delivery # "failed")
             => runs'[r].pc = "fetch" /\ runs'[r].type = "evening"]_vars

\* C34: with the timezone offset left as it is, once a reminder of local
\* date d has been sent on a channel and its watermark written, no change of
\* the channel's time and no switching of the channel off and on makes a
\* Send step deliver a reminder of d on that channel again.
C34_ChannelEditsNeverResend ==
    [][\A r \in RunIds, u \in DOMAIN users, type \in Types :
          (/\ runs[r].pc = "deliver" /\ runs'[r].pc = "update"
           /\ runs'[r].delivery = "sent"
           /\ runs[r].users[runs[r].idx].id = u /\ runs[r].type = type)
             => ~(/\ <<u, type, runs[r].todayDate>> \in delivered
                  /\ <<u, type, runs[r].todayDate>> \in marked)]_vars

\* Witness of C34: the morning reminder of the date was sent at 08:00 and its
\* watermark written, the morning time is now another one that the local
\* time has reached, and a later tick of the same date has run its passes.
C34_TimeChangedAfterSend ==
    \E u \in DOMAIN users :
        LET d == getTodayDate(Now, sweepTimezoneOffset(users[u]))
        IN  /\ <<u, "morning", d>> \in delivered \cap marked
            /\ watermark(u, "morning") = <<d>>
            /\ users[u].morningEnabled
            /\ users[u].morningTime = [hh |-> 21, mm |-> 0]
            /\ currentTimeInMinutes(Now, sweepTimezoneOffset(users[u])) >= 21 * 60
            /\ lastTick = clock
            /\ <<u, "evening", d>> \in delivered \cap marked
            /\ \A r \in RunIds : runs[r].pc = "idle"

\* C35: two toggleHabitCompletion calls of one (habit, date) whose reads and
\* writes interleave have the effect of two toggles in a row: no call fails,
\* every call negates the completion it finds when it writes (a missing
\* entry counting as not completed), and the pair has exactly one entry.
C35_InterleavedTogglesAsSequential ==
    [][\A c \in CallIds :
          (calls[c].pc = "write" /\ calls'[c].pc = "idle")
             => LET before == entryState(logs, calls[c].habitId, calls[c].date)
                    after == entryState(logs', calls[c].habitId, calls[c].date)
                IN  /\ after = (IF before = "true" THEN "false" ELSE "true")
                    /\ Cardinality({e \in logs' : /\ e.habitId = calls[c].habitId
                                                  /\ e.date = calls[c].date}) = 1]_vars

\* C36: a habit_toggle or habit_confirm_delete callback that names a habit
\* of another user, or no habit, leaves every habit and every log entry as
\* it is, and starts no call that would write later.
C36_ForeignCallbackChangesNothing ==
    [][(/\ query' # query
        /\ query'.op \in {"habit_toggle", "habit_confirm_delete"}
        /\ \/ query'.habitId \notin DOMAIN habits
           \/ habits[query'.habitId].userId # query'.user)
          => /\ habits' = habits
             /\ logs' = logs
             /\ calls' = calls]_vars

\* Witness of C36: user 1 has confirmed the deletion of the habit of user 2,
\* which is still active.
C36_ForeignDeleteRefused ==
    /\ query.op = "habit_confirm_delete"
    /\ query.user = 1 /\ query.habitId = 2
    /\ habits[2].userId = 2 /\ habits[2].isActive
    /\ edits > 0

\* The local date of user 1 in the handlers at instant i, and what the
\* today view reports for habit 1 on it.
todayAt(i) == getTodayDate(Instant(i), handlerTimezoneOffset(users[1]))

dueInTodayView(lg, i) ==
    \E row \in getUserHabitsWithTodayStatus(habits, lg, 1, todayAt(i)) :
        row.id = 1 /\ row.isDueToday

completionDays(lg) == {e.date : e \in {x \in lg : x.habitId = 1 /\ x.completed}}

\* C37: an interval habit that the today view reports due on local date d,
\* with no completion on or after d, is reported due after every step that
\* records no completion, on d and on every later date; and a habit whose
\* last completion lies on or before today is reported due exactly on the day
\* of that completion and from frequencyDays days after it on.
C37_DueUntilCompleted ==
    /\ [][(/\ dueInTodayView(logs, clock)
           /\ \A d \in completionDays(logs) : d < todayAt(clock)
           /\ completionDays(logs') \subseteq completionDays(logs))
             => dueInTodayView(logs', clock')]_vars
    /\ [](\A last \in completionDays(logs) :
             (last = Max(completionDays(logs)) /\ last <= todayAt(clock))
                => (dueInTodayView(logs, clock)
                      <=> \/ last = todayAt(clock)
                          \/ last + habits[1].frequencyDays <= todayAt(clock)))

\* Witness of C37: every third day, last completed three days before the
\* first day; the view of the second day reports the habit due, as that of
\* the first day did.
C37_StillDueOnSecondDay ==
    /\ habits[1].frequencyDays = 3
    /\ completionDays(logs) = {FirstDay - 3}
    /\ query.op = "habits" /\ query.isToday
    /\ query.date = FirstDay + 1
    /\ \E row \in query.habits : row.id = 1 /\ row.isDueToday

\* C38: parseCallback(serializeCallback(a)) is a for every action a, and
\* parseCallback returns null for callback_data that matches no case.
C38_ParseInvertsSerialize ==
    /\ (query.op = "serializeCallback" /\ query.stage = "parsed")
          => query.parsed = <<query.action>>
    /\ (query.op = "parseCallback" /\ query.stage = "parsed")
          => query.parsed = Null

====
